---- MODULE Spec2Model ----
(***************************************************************************)
(* Model of the pg-pubsub library of nestkit: the durable message queue    *)
(* (QueueService), the message processor (MessageProcessorService) and the *)
(* drains started by PgPubSubService.listenForChanges.                      *)
(*                                                                         *)
(* Time is counted in minutes.  A queue row is a record holding the        *)
(* columns of the queue table; the column payload is represented by the    *)
(* two payload keys the processor reads, table and event.                  *)
(*                                                                         *)
(* A drain is one execution of pullAndProcessMessages.  Drains of several  *)
(* instances, and overlapping drains of one instance (notification         *)
(* callbacks and fallback ticks are not serialised), are the elements of   *)
(* Drains.  Handlers follow the documented contract of onError: the ids    *)
(* they report are ids of payloads they were given.                        *)
(***************************************************************************)
EXTENDS Integers, Sequences, FiniteSets, TLC

\* ------------------------------------------------------------------ bounds
\* The clock runs to MaxTime while at most one row was enqueued, and to WideTime
\* once there are more.
MaxRows == 2
MaxTime == 5
\* Cleanup passes are followed on queues of up to MaxCleanupRows rows whose
\* creation, claims and marks happened at the times 0..MaxCleanupAge.
MaxCleanupRows == 2
MaxCleanupAge == 2
WideTime == 1
MaxCrashes == 1
MaxRetriesBound == 2
MessageTTL == 2
MaxSort == 3
MaxResumes == 2
MaxLockTime == 11
MaxStack == 2
MaxFetchRows == 102
MaxMarkTicks == 2
MaxProviders == 2
FetchTime == 3
MaxHashLen == 5

\* ------------------------------------------------------- program constants
NULL == -1
BATCH_SIZE_LIMIT == 100
CLAIM_DEADLINE == 5
BACKOFF_BASE == 1
DEFAULT_LOCK_DURATION == 10
PG_PUBSUB_LOCK_DURATION == 5
PG_INT_MAX == 2147483647

\* The concurrent executions of pullAndProcessMessages.
Drains == {"d1", "d2"}
RowIds == 1..MaxRows

PENDING == "pending"
PROCESSING == "processing"
PROCESSED == "processed"
FAILED == "failed"
MessageStatus == {PENDING, PROCESSING, PROCESSED, FAILED}

PgTableChangeType == {"INSERT", "UPDATE", "DELETE"}

\* The trigger prefix, which is also the channel of the queue rows.
triggerPrefix == "pubsub_trigger"

\* The registered listeners, in discovery order: two for users, one for INSERT
\* and one for UPDATE, and one for orders with no options (<< >> is undefined).
Providers ==
  << [instance |-> "h1", table |-> "users", schema |-> << >>,
      events |-> <<{"INSERT"}>>, payloadFields |-> << >>],
     [instance |-> "h2", table |-> "users", schema |-> << >>,
      events |-> <<{"UPDATE"}>>, payloadFields |-> << >>],
     [instance |-> "h3", table |-> "orders", schema |-> << >>,
      events |-> << >>, payloadFields |-> << >>] >>

\* A table that has a queue row but no entry in the discovery result.
GhostTable == "ghost"

\* The row changes the triggers capture: the payload keys table and event.
ChangeKinds ==
  { [table |-> "users", event |-> "INSERT"],
    [table |-> "orders", event |-> "UPDATE"],
    [table |-> GhostTable, event |-> "DELETE"] }

VARIABLES queue, payload, lastId, now, maxRetries, drain, delivered, orphaned,
          crashes

\* The messages one claim query returned, in the order it returned them, and the
\* listener invocations processChanges made for them.
VARIABLES returned, handed

\* The last call made directly on a service, with its arguments.
VARIABLES call

\* The PgPubSubService of one process and the calls made to it.
VARIABLES listener

\* The advisory lock of the database, and per instance: its tryLock call, the
\* release timer in activeLocks; the time in seconds.
VARIABLES advisory, lockCall, activeLocks, lockNow

\* Per instance, how far onModuleInit got: not called, in tryLock, failed (it
\* threw), or past resume() and listening; and whether its queue setup and
\* trigger reconciliation threw.
VARIABLES startup

\* Per instance, the release timers of the lock key: the timers that are
\* scheduled and neither fired nor cleared (pending, each with an id and the
\* time it is due), the id of the timer stored in activeLocks (entry, 0 when the
\* map has no entry for the key) and the number of fired timers whose unlock
\* query has not returned.
VARIABLES timers

\* The row triggers installed in the database, the run of setupTriggers, and
\* the last row change on a user table with what its trigger did.
VARIABLES installed, reconcile, change

queueVars ==
  <<queue, payload, lastId, now, maxRetries, drain, delivered, orphaned, crashes>>

sortVars == <<returned, handed, call>>

lockVars == <<advisory, lockCall, activeLocks, lockNow, startup, timers>>

triggerVars == <<installed, reconcile, change>>

vars == <<queueVars, sortVars, listener, lockVars, triggerVars>>

\* What the queue and its drains leave alone.
elsewhere == <<sortVars, listener, lockVars, triggerVars>>

\* ---------------------------------------------------------------- helpers
RECURSIVE Pow2(_)
Pow2(n) == IF n <= 0 THEN 1 ELSE 2 * Pow2(n - 1)

Min(S) == CHOOSE x \in S : \A y \in S : x <= y

RECURSIVE SortById(_)
SortById(S) == IF S = {} THEN << >> ELSE <<Min(S)>> \o SortById(S \ {Min(S)})

RECURSIVE LowestN(_, _)
LowestN(S, n) ==
  IF S = {} \/ n <= 0 THEN {} ELSE {Min(S)} \cup LowestN(S \ {Min(S)}, n - 1)

Range(s) == {s[i] : i \in 1..Len(s)}

\* ---------------------------------------------------- listener discovery
tableNames == {Providers[i].table : i \in 1..Len(Providers)}

RECURSIVE InstancesOf(_, _)
InstancesOf(t, i) ==
  IF i > Len(Providers) THEN << >>
  ELSE (IF Providers[i].table = t THEN <<Providers[i].instance>> ELSE << >>)
       \o InstancesOf(t, i + 1)

listenersMap == [t \in tableNames |-> InstancesOf(t, 1)]

tablesMap == tableNames

\* --------------------------------------------------------- queue service
\* No service was called directly.
NoServiceCall == [op |-> "none"]

NewRow ==
  [channel |-> triggerPrefix, status |-> PENDING, retry_count |-> 0,
   next_retry_at |-> NULL, processed_at |-> NULL, created_at |-> now]

\* Rows locked FOR UPDATE by the open claim transaction of another drain.
LockedByOthers(d) ==
  UNION {drain[o].batch : o \in {x \in Drains \ {d} : drain[x].pc = "fetch"}}

\* Variant: the claim query without the retry_count < max_retries condition.
Claimable_NoRetryCap(r, txNow) ==
  \/ r.status = PENDING
  \/ /\ r.status = FAILED
     /\ r.next_retry_at # NULL
     /\ r.next_retry_at <= txNow

\* The WHERE clause of the subquery; NOW() is the time the transaction of the
\* statement started at.
Claimable(r, txNow) ==
  \/ r.status = PENDING
  \/ /\ r.status = FAILED
     /\ r.retry_count < maxRetries
     /\ r.next_retry_at # NULL
     /\ r.next_retry_at <= txNow

\* Variant: the subquery with ORDER BY id DESC LIMIT 1.
SelectForUpdate_Newest(d, txNow) ==
  LET S == {i \in DOMAIN queue : queue[i].status = PENDING} \ 
             UNION {drain[o].batch : o \in {x \in Drains \ {d} : drain[x].pc = "fetch"}}
  IN IF S = {} THEN {} ELSE {CHOOSE x \in S : \A y \in S : y <= x}

\* Variant: the subquery without SKIP LOCKED semantics.
SkipLocked_Ignored(S, d) == S

SkipLocked(S, d) == S \ LockedByOthers(d)

\* Variant: the subquery without the channel = $2 condition.
SelectForUpdate_AnyChannel(d, txNow) ==
  LowestN(SkipLocked({i \in DOMAIN queue : Claimable(queue[i], txNow)}, d),
          BATCH_SIZE_LIMIT)

\* The subquery, run by drain d in a transaction that started at txNow; every
\* drain fetches the channel of the trigger prefix.
SelectForUpdate(d, txNow) ==
  LowestN(SkipLocked({i \in DOMAIN queue :
                        Claimable(queue[i], txNow) /\ queue[i].channel = triggerPrefix}, d),
          BATCH_SIZE_LIMIT)

\* NOW() is the time the claim transaction started at.
ClaimRow(r, txNow) ==
  [r EXCEPT !.status = PROCESSING, !.next_retry_at = txNow + CLAIM_DEADLINE]

\* Variant: markAsProcessed that sets the status only.
ProcessedRow_NoTimestamp(r) ==
  [r EXCEPT !.status = PROCESSED]

ProcessedRow(r) ==
  [r EXCEPT !.status = PROCESSED, !.processed_at = now]

BackoffAt(r) ==
  IF r.retry_count >= maxRetries THEN NULL
  ELSE now + BACKOFF_BASE * Pow2(r.retry_count)

FailedRow(r) ==
  [r EXCEPT !.status = FAILED,
            !.retry_count = r.retry_count + 1,
            !.next_retry_at = BackoffAt(r)]

markAsProcessed(q, ids) ==
  [i \in DOMAIN q |-> IF i \in ids THEN ProcessedRow(q[i]) ELSE q[i]]

markAsFailed(q, ids) ==
  [i \in DOMAIN q |-> IF i \in ids THEN FailedRow(q[i]) ELSE q[i]]

\* Variant: the DELETE without the retry_count >= $2 condition.
Expired_AnyFailed(r) ==
  \/ r.status = PROCESSED /\ r.processed_at # NULL /\ r.processed_at < now - MessageTTL
  \/ r.created_at < now - MessageTTL /\ r.status = FAILED

\* The WHERE clause of the DELETE; a comparison with a NULL processed_at is not
\* true.
Expired(r) ==
  \/ r.status = PROCESSED /\ r.processed_at # NULL /\ r.processed_at < now - MessageTTL
  \/ r.created_at < now - MessageTTL /\ r.status = FAILED
     /\ r.retry_count >= maxRetries

\* ----------------------------------------------------- message processor
\* error is the service call whose database error the drain has caught.
IdleDrain ==
  [pc |-> "idle", txNow |-> NULL, batch |-> {}, dfailed |-> {}, calls |-> << >>,
   failedIds |-> {}, rejected |-> {}, error |-> "none"]

Decodable(i) == payload[i].table \in tablesMap

\* Variant: the decode loop gives up at the first message it cannot decode.
Payloads_StopAtError(d) ==
  SortById({i \in drain[d].batch :
              Decodable(i) /\ \A j \in drain[d].batch : ~Decodable(j) => i < j})

\* The payloads pushed by the decode loop, sorted by id (processChanges).
Payloads(d) == SortById({i \in drain[d].batch : Decodable(i)})

TableOf(i) == payload[i].table

\* Keys of groupByTables in insertion order: first appearance in payloads.
RECURSIVE GroupOrder(_, _)
GroupOrder(p, seen) ==
  IF p = << >> THEN << >>
  ELSE IF TableOf(Head(p)) \in seen THEN GroupOrder(Tail(p), seen)
  ELSE <<TableOf(Head(p))>> \o GroupOrder(Tail(p), seen \cup {TableOf(Head(p))})

\* Variant: every listener is given the changes of every table.
Changes_AnyTable(p, t) == p

\* groupByTables[t]
Changes(p, t) == SelectSeq(p, LAMBDA i : TableOf(i) = t)

\* changes.filter((c) => c.event === e)
EventsOf(changes, e) == SelectSeq(changes, LAMBDA i : payload[i].event = e)

\* The listeners invoked for payloads p, in invocation order.
RECURSIVE Invoked(_, _)
Invoked(p, groups) ==
  IF groups = << >> THEN << >>
  ELSE [k \in 1..Len(listenersMap[Head(groups)]) |->
          [listener |-> listenersMap[Head(groups)][k],
           table |-> Head(groups),
           all |-> Changes(p, Head(groups)),
           INSERT |-> EventsOf(Changes(p, Head(groups)), "INSERT"),
           UPDATE |-> EventsOf(Changes(p, Head(groups)), "UPDATE"),
           DELETE |-> EventsOf(Changes(p, Head(groups)), "DELETE")]]
       \o Invoked(p, Tail(groups))

\* Variant: processChanges without the sort.
SortPayloads_Unsorted(p) == p

RECURSIVE InsertById(_, _)
InsertById(p, i) ==
  IF p = << >> THEN <<i>>
  ELSE IF i < Head(p) THEN <<i>> \o p
  ELSE <<Head(p)>> \o InsertById(Tail(p), i)

\* payloads.sort((a, b) => a.id - b.id)
RECURSIVE SortPayloads(_)
SortPayloads(p) ==
  IF p = << >> THEN << >>
  ELSE InsertById(SortPayloads(SubSeq(p, 1, Len(p) - 1)), p[Len(p)])

\* The decode loop over messages, then processChanges up to the dispatch.
processChanges(messages) ==
  LET p == SortPayloads(SelectSeq(messages, Decodable))
  IN Invoked(p, GroupOrder(p, {}))

\* Variant: a rejected process() fails every change the listener was given.
FailedIds_RejectFails(inv, rep, rej) ==
  UNION {IF rej[k] THEN Range(inv[k].all) ELSE rep[k] : k \in 1..Len(inv)}

\* failedIds after Promise.all: everything the listeners pushed through onError;
\* the catch of a rejected process() only logs.
FailedIds(inv, rep, rej) == UNION {rep[k] : k \in 1..Len(inv)}

\* Variant: markAsProcessed called with every payload id.
ProcessedIds_All(p, failed) == Range(p)

ProcessedIds(p, failed) == {i \in Range(p) : i \notin failed}

\* ----------------------------------------------------------- lock service
\* Each instance talks to the database through one session.  A session-level
\* advisory lock is held by one session and stacks: it is free again when it has
\* been unlocked as often as it was locked.
Instances == {"a", "b"}

FreeLock == [holder |-> "none", count |-> 0]

\* The durations passed to tryLock, in seconds; NULL is a missing duration.
Durations == {NULL, 0, 2}

\* options.duration && options.duration > 0 ? options.duration : 10_000
EffectiveDuration(d) == IF d # NULL /\ d > 0 THEN d ELSE DEFAULT_LOCK_DURATION

\* What is kept of a call that has returned.  options.duration is read once,
\* when the release is scheduled.
Returned(c) ==
  [c EXCEPT !.pc = "done", !.duration = NULL, !.rejectThrows = FALSE]

\* A tryLock call: where it is, its options (duration, whether onAccept and
\* onReject throw, whether it is the call of onModuleInit), whether the query
\* found the lock held by another instance, how often it invoked onAccept and
\* onReject, and whether it threw to its caller.
\* No timer is scheduled and activeLocks has no entry for the key.
NoTimers == [pending |-> {}, entry |-> 0, unlocking |-> 0]

\* clearTimeout(this.activeLocks.get(key)): the timer of the entry, if it is
\* still pending, is cancelled.
clearTimeout(t) == [t EXCEPT !.pending = {x \in @ : x.id # t.entry}]

\* setTimeout(..., duration) and this.activeLocks.set(key, timeout); a timer is
\* named by the least id no pending timer has.
setTimeout(t, due) ==
  LET id == Min(1..(Cardinality(t.pending) + 1) \ {x.id : x \in t.pending})
  IN  [t EXCEPT !.pending = @ \cup {[id |-> id, due |-> due]}, !.entry = id]

\* An instance on which onModuleInit was not called.
NotStarted == [phase |-> "none", setupFailed |-> FALSE, call |-> 0]

NoCall ==
  [pc |-> "idle", duration |-> NULL, acceptThrows |-> FALSE,
   rejectThrows |-> FALSE, init |-> FALSE, blocked |-> FALSE,
   accepts |-> 0, rejects |-> 0, threw |-> FALSE]

\* SELECT pg_try_advisory_lock: acquired unless another session holds the lock.
Acquired(i) == advisory.holder \in {"none", i}

\* SELECT pg_advisory_unlock, run by session i.
Unlocked(i) ==
  IF advisory.holder # i THEN advisory
  ELSE IF advisory.count = 1 THEN FreeLock
  ELSE [advisory EXCEPT !.count = @ - 1]

\* --------------------------------------------------------- trigger service
\* The user tables, by name; names are case-sensitive in the database.
TriggerTables == {"Users", "users", "orders"}

TriggerSchemas == {"public"}

\* The event lists of a table listener; {} is a missing or empty list.
EventLists == {{}, {"INSERT"}}

\* String.prototype.toLowerCase on the table names.
toLowerCase(t) == IF t = "Users" THEN "users" ELSE t

\* `${triggerPrefix}_${listener.table.toLowerCase()}`
TriggerName(t) == <<triggerPrefix, toLowerCase(t)>>

\* discovery.listeners: at most one table listener per table name.
TableListeners == [table : TriggerTables, schema : TriggerSchemas, events : EventLists]

Discoveries ==
  {D \in SUBSET TableListeners : \A a \in D : \A b \in D : a.table = b.table => a = b}

\* t.events?.length ? t.events : ['INSERT', 'UPDATE', 'DELETE']
TriggerEvents(events) == IF events # {} THEN events ELSE PgTableChangeType

\* `${schema}.${table}`
TriggerKey(t) == <<t.schema, t.table>>

\* The row trigger (and its function of the same name and schema) that
\* createTriggers installs for a table listener.
DesiredTrigger(l) ==
  [name |-> TriggerName(l.table), schema |-> l.schema, table |-> l.table,
   events |-> TriggerEvents(l.events)]

\* SELECT DISTINCT trigger_name, trigger_schema, event_object_table
listTriggers(db) == {[name |-> t.name, schema |-> t.schema, table |-> t.table] : t \in db}

\* DROP FUNCTION IF EXISTS schema."name" CASCADE for every listed trigger: the
\* function goes, and with it every trigger that executes it.
dropTriggers(db, triggers) ==
  {t \in db : ~\E r \in triggers : r.schema = t.schema /\ r.name = t.name}

\* CREATE OR REPLACE FUNCTION; DROP TRIGGER IF EXISTS name ON table; CREATE
\* TRIGGER name ON table, for every listener.
createTriggers(db, ls) ==
  {t \in db : ~\E l \in ls : TriggerKey(l) = TriggerKey(t) /\ TriggerName(l.table) = t.name}
    \cup {DesiredTrigger(l) : l \in ls}

\* Variant: the obsolete triggers found by table name alone.
triggersToRemove_ByTable(existing, desired) ==
  {r \in existing : ~\E l \in desired : l.table = r.table}

\* The existing triggers whose schema.table key no desired trigger has.
triggersToRemove(existing, desired) ==
  {r \in existing : ~\E l \in desired : TriggerKey(l) = TriggerKey(r)}

\* No run of setupTriggers yet.  desired is the discovery of the run; start is
\* the database when the run began and existing what listTriggers returned;
\* todo are the upserts not yet done; txn is the database as the open
\* transaction sees it and locked the tables it has locked; repeat says that the
\* run has the discovery of the run before it.  calls are the calls of
\* createTriggers and dropTriggers the run has made, in order, and dropped the
\* triggers it passed to dropTriggers.  tx is the transaction of the query
\* runner (none, active, committed, rolledBack), runner the query runner (none,
\* open, released), failed that a statement or the commit threw, and threw
\* that setupTriggers threw.
NoSetup ==
  [pc |-> "idle", strategy |-> "none", desired |-> {}, start |-> {},
   existing |-> {}, todo |-> {}, txn |-> {}, locked |-> {}, repeat |-> FALSE,
   calls |-> << >>, dropped |-> {}, tx |-> "none", runner |-> "none",
   failed |-> FALSE, threw |-> FALSE]

NoChange == [schema |-> "none", table |-> "none", event |-> "none",
             enqueued |-> FALSE, kept |-> FALSE]

\* ------------------------------------------------- registration merge
\* An optional value: << >> when undefined, <<v>> when given.
Undefined == << >>

\* The columns of every entity.
Columns == {"id", "name"}

\* provider.meta of a discovered listener: the table of its target entity, and
\* its optional schema, events and payloadFields (arrays, kept as sets).
Registrations ==
  [table : {"users", "orders"},
   schema : {Undefined, <<"audit">>},
   events : {Undefined, <<{}>>, <<{"INSERT"}>>, <<{"UPDATE", "DELETE"}>>},
   payloadFields : {Undefined, <<{"id"}>>, <<{"name"}>>}]

\* x || []
OrEmpty(x) == IF x = Undefined THEN {} ELSE x[1]

\* provider.meta.schema || this.config.triggerSchema || PG_PUBSUB_TRIGGER_SCHEMA
SchemaOf(m) == IF m.schema # Undefined THEN m.schema[1] ELSE "public"

\* listeners.find((l) => l.table === table): its index, 0 when there is none.
FindListener(listeners, table) ==
  IF \E k \in DOMAIN listeners : listeners[k].table = table
  THEN CHOOSE k \in DOMAIN listeners :
         listeners[k].table = table /\ \A j \in 1..(k - 1) : listeners[j].table # table
  ELSE 0

\* One round of providers.forEach: merge into the listener of the table, or push
\* a new listener.
MergeProvider(listeners, m) ==
  LET k == FindListener(listeners, m.table)
  IN IF k # 0
     THEN [listeners EXCEPT ![k] =
             [table |-> @.table,
              schema |-> IF m.schema # Undefined THEN m.schema[1] ELSE @.schema,
              events |-> <<OrEmpty(@.events) \cup OrEmpty(m.events)>>,
              payloadFields |-> <<OrEmpty(@.payloadFields) \cup OrEmpty(m.payloadFields)>>]]
     ELSE Append(listeners,
                 [table |-> m.table, schema |-> SchemaOf(m), events |-> m.events,
                  payloadFields |-> m.payloadFields])

\* discovery.listeners of processDiscoveredListeners.
RECURSIVE processDiscoveredListeners(_)
processDiscoveredListeners(provs) ==
  IF provs = << >> THEN << >>
  ELSE MergeProvider(processDiscoveredListeners(SubSeq(provs, 1, Len(provs) - 1)),
                     provs[Len(provs)])

\* createTriggers: t.events?.length ? t.events : ['INSERT', 'UPDATE', 'DELETE']
EventMask(l) == TriggerEvents(OrEmpty(l.events))

\* createTriggers, buildJson: row_to_json unless payloadFields has elements.
PayloadColumns(l) ==
  IF OrEmpty(l.payloadFields) = {} THEN Columns ELSE OrEmpty(l.payloadFields)

\* ------------------------------------------------------------- utilities
\* A string is the sequence of its UTF-16 code units (charCodeAt).  The
\* strings hashed here are built from these code units.
HashChars == {97, 150, 151, 56982, 65535}

HashStrings == UNION {[1..n -> HashChars] : n \in 0..MaxHashLen}

\* 32-bit integers are computed in two 16-bit halves, so that no intermediate
\* value leaves the 32-bit range.
HalfWord == 65536

Lo(h) == h % HalfWord

Hi(h) == (h \div HalfWord) % HalfWord

\* The signed 32-bit integer with the given halves (ToInt32).
ToInt32(hi, lo) == (IF hi >= 32768 THEN hi - HalfWord ELSE hi) * HalfWord + lo

\* hash = (hash << 5) - hash + char; hash = hash & hash.  The shift wraps to
\* 32 bits, the sum is exact and the bitwise and wraps again: together
\* 31 * hash + char modulo 2^32, as a signed integer.
HashChar(hash, char) ==
  LET lo == Lo(hash) * 31 + char
      hi == Hi(hash) * 31 + (lo \div HalfWord)
  IN  ToInt32(hi % HalfWord, lo % HalfWord)

\* The loop of hashStringToInt from index i on.
RECURSIVE RollingHash(_, _, _)
RollingHash(str, i, hash) ==
  IF i > Len(str) THEN hash
  ELSE RollingHash(str, i + 1, HashChar(hash, str[i]))

\* hash % 2147483647 where the remainder takes the sign of the dividend; the
\* magnitude of a negative hash is (-(hash + 1)) + 1, which may be 2^31.
AbsRemainder_Signed(hash) ==
  IF hash >= 0 THEN hash % PG_INT_MAX
  ELSE -((((-(hash + 1)) % PG_INT_MAX) + 1) % PG_INT_MAX)

\* Math.abs(hash) % 2147483647.  Math.abs is exact: the magnitude of a
\* negative hash is (-(hash + 1)) + 1, which may be 2^31.
AbsRemainder(hash) ==
  IF hash >= 0 THEN hash % PG_INT_MAX
  ELSE (((-(hash + 1)) % PG_INT_MAX) + 1) % PG_INT_MAX

hashStringToInt(str) == AbsRemainder(RollingHash(str, 1, 0))

\* --------------------------------------------------------- update payloads
\* The values of a JSON object: a missing key reads as undefined, null, two
\* scalars, and an object or array.
JsUndefined == "undefined"

JsNull == "null"

JsObject == "[object]"

JsScalars == {"a", "b"}

JsValues == {JsUndefined, JsNull, JsObject} \cup JsScalars

\* typeof v
TypeOf(v) ==
  IF v = JsUndefined THEN "undefined"
  ELSE IF v \in {JsNull, JsObject} THEN "object"
  ELSE "string"

\* The columns of the row JSON of a trigger payload, and columnNameToPropNames:
\* the column legacy has no property.
RowColumns == {"id", "full_name", "legacy"}

PropNames == {"id", "name"}

PropertyOf(column) ==
  IF column = "id" THEN "id" ELSE IF column = "full_name" THEN "name" ELSE JsUndefined

ColumnOf(prop) == CHOOSE c \in RowColumns : PropertyOf(c) = prop

\* The rows: a value or no key for each column.
RowData == [RowColumns -> JsValues]

\* createEntity: every key of data whose column has a property is copied to
\* that property of a new entity.
createEntity(data) == [p \in PropNames |-> data[ColumnOf(p)]]

\* Object.keys(entity)
ObjectKeys(entity) == {p \in DOMAIN entity : entity[p] # JsUndefined}

\* Object.keys(oldData).filter((key) => typeof oldData[key] !== 'object' &&
\* oldData[key] !== newData[key]); an object is never identical to another.
updatedFields(oldData, newData) ==
  {key \in ObjectKeys(oldData) :
     TypeOf(oldData[key]) # "object" /\ oldData[key] # newData[key]}

\* ------------------------------------------------------- pub/sub service
\* postgresSubscriber is undefined, connecting, connected or closing (close()
\* called and not yet returned); a closed subscriber emits no event and no
\* notification.  subscribed: the notification callback is registered on the
\* current subscriber, callbacks times.  leaked: an interval subscription that was overwritten in
\* pollingSubscription and still ticks.  calls is the number of resume() calls;
\* lfc[g] is the position of the listenForChanges started by the connected
\* handler of call g, lfcDrain[g] its initial pull, pending[g] its promise.
\* paused: pause() has returned and resume() was not called since; pausedAt is
\* the last queue id at that moment.  sar is the position of suspendAndRun.
\* pollingSubscription: the field holds a subscription; ticking: that
\* subscription was not unsubscribed.  destroy is the position of
\* onModuleDestroy.  handlers: the resume() calls whose connected handler is
\* registered on the subscriber of the field.  early: close() was called on
\* that subscriber before its connected event, which may still come.  orphans:
\* the handlers of each subscriber that left the field with its connected
\* event outstanding.  stray: a subscriber left the field open, with the
\* notification callback registered on it.
StoppedListener ==
  [postgresSubscriber |-> "undefined", subscribed |-> FALSE, callbacks |-> 0,
   pollingSubscription |-> FALSE, ticking |-> FALSE, leaked |-> FALSE,
   destroy |-> "none",
   calls |-> 0,
   handlers |-> {}, early |-> FALSE, orphans |-> {}, stray |-> FALSE,
   lfc |-> [g \in 1..MaxResumes |-> "none"],
   lfcDrain |-> [g \in 1..MaxResumes |-> "d1"],
   pending |-> {},
   pausing |-> FALSE, paused |-> FALSE, pausedAt |-> 0,
   sar |-> "none", sarCall |-> 0, sarFailed |-> FALSE]

\* ---------------------------------------------------------------- actions
Init ==
  /\ queue = << >>
  /\ payload = << >>
  /\ lastId = 0
  /\ now = 0
  /\ maxRetries \in 0..MaxRetriesBound
  /\ drain = [d \in Drains |-> IdleDrain]
  /\ delivered = {}
  /\ orphaned = {}
  /\ crashes = 0
  /\ returned = << >>
  /\ handed = << >>
  /\ call = NoServiceCall
  /\ listener = StoppedListener
  /\ advisory = FreeLock
  /\ lockCall = [i \in Instances |-> NoCall]
  /\ activeLocks = [i \in Instances |-> NULL]
  /\ lockNow = 0
  /\ startup = [i \in Instances |-> NotStarted]
  /\ timers = [i \in Instances |-> NoTimers]
  /\ installed = {}
  /\ reconcile = NoSetup
  /\ change = NoChange

\* A row change on a table fires its trigger: INSERT INTO queue(channel, payload).
Enqueue(c) ==
  /\ lastId < MaxRows
  /\ lastId >= 1 => now <= WideTime
  /\ lastId' = lastId + 1
  /\ queue' = [i \in DOMAIN queue \cup {lastId + 1} |->
                 IF i = lastId + 1 THEN NewRow ELSE queue[i]]
  /\ payload' = Append(payload, c)
  /\ UNCHANGED <<now, maxRetries, drain, delivered, orphaned, crashes>>

\* A minute passes.
AdvanceTime ==
  /\ now < (IF lastId <= 1 THEN MaxTime ELSE WideTime)
  /\ now' = now + 1
  /\ UNCHANGED <<queue, payload, lastId, maxRetries, drain, delivered, orphaned, crashes>>

\* fetchPendingMessages is called: await queryRunner.startTransaction().  NOW()
\* of the transaction is the time of its BEGIN.
FetchStart(d) ==
  /\ drain[d].pc = "idle"
  /\ drain' = [drain EXCEPT ![d] = [IdleDrain EXCEPT !.pc = "begin",
                                                     !.txNow = now]]
  /\ UNCHANGED <<queue, payload, lastId, now, maxRetries, delivered, orphaned, crashes>>

\* fetchPendingMessages: the claim statement runs; its subquery sees the rows
\* committed until now and locks the rows it selects.
FetchQuery(d) ==
  /\ drain[d].pc = "begin"
  /\ drain' = [drain EXCEPT ![d].pc = "fetch",
                            ![d].batch = SelectForUpdate(d, drain[d].txNow)]
  /\ UNCHANGED <<queue, payload, lastId, now, maxRetries, delivered, orphaned, crashes>>

\* fetchPendingMessages: UPDATE ... RETURNING *, commit; an empty result ends the drain.
FetchCommit(d) ==
  /\ drain[d].pc = "fetch"
  /\ queue' = [i \in DOMAIN queue |->
                 IF i \in drain[d].batch THEN ClaimRow(queue[i], drain[d].txNow)
                 ELSE queue[i]]
  /\ drain' = [drain EXCEPT ![d] =
                 IF drain[d].batch = {} THEN IdleDrain
                 ELSE [drain[d] EXCEPT !.pc = "decode", !.txNow = NULL]]
  /\ UNCHANGED <<payload, lastId, now, maxRetries, delivered, orphaned, crashes>>

\* The decode loop reaches a message whose table is unknown: markAsFailed([id]).
DecodeFail(d) ==
  /\ drain[d].pc = "decode"
  /\ \E i \in drain[d].batch \ drain[d].dfailed :
       /\ ~Decodable(i)
       /\ queue' = markAsFailed(queue, {i})
       /\ drain' = [drain EXCEPT ![d].dfailed = @ \cup {i}]
  /\ UNCHANGED <<payload, lastId, now, maxRetries, delivered, orphaned, crashes>>

\* processChanges up to Promise.all: the decode loop is over and every listener
\* of every group is invoked with its changes.
Dispatch(d) ==
  /\ drain[d].pc = "decode"
  /\ \A i \in drain[d].batch \ drain[d].dfailed : Decodable(i)
  /\ LET p == Payloads(d)
     IN /\ drain' = [drain EXCEPT ![d].pc = "running",
                                   ![d].calls = Invoked(p, GroupOrder(p, {}))]
        /\ delivered' = delivered \cup Range(p)
  /\ UNCHANGED <<queue, payload, lastId, now, maxRetries, orphaned, crashes>>

\* What listener k may pass to onError: ids of the changes it was given.
Reports(inv) ==
  {rep \in [1..Len(inv) -> SUBSET RowIds] :
     \A k \in 1..Len(inv) : rep[k] \subseteq Range(inv[k].all)}

\* processChanges after Promise.all: the listeners have settled, listener k having
\* reported rep[k] and rejected iff rej[k]; markAsProcessed(payloads not in failedIds).
MarkProcessed(d, rep, rej) ==
  /\ drain[d].pc = "running"
  /\ LET failed == FailedIds(drain[d].calls, rep, rej)
     IN /\ queue' = markAsProcessed(queue, ProcessedIds(Payloads(d), failed))
        /\ drain' = [drain EXCEPT ![d] =
                       IF failed = {} THEN IdleDrain
                       ELSE [drain[d] EXCEPT !.pc = "marked",
                                             !.failedIds = failed,
                                             !.rejected = {k \in DOMAIN rej : rej[k]}]]
  /\ UNCHANGED <<payload, lastId, now, maxRetries, delivered, orphaned, crashes>>

Settle(d) ==
  \E rep \in Reports(drain[d].calls) :
    \E rej \in [1..Len(drain[d].calls) -> BOOLEAN] : MarkProcessed(d, rep, rej)

\* processChanges: if (failedIds.length > 0) markAsFailed(failedIds).
MarkFailed(d) ==
  /\ drain[d].pc = "marked"
  /\ queue' = markAsFailed(queue, drain[d].failedIds)
  /\ drain' = [drain EXCEPT ![d] = IdleDrain]
  /\ UNCHANGED <<payload, lastId, now, maxRetries, delivered, orphaned, crashes>>

\* The rows a drain has claimed and not yet marked.
Unmarked(d) ==
  IF drain[d].pc \in {"decode", "running"} THEN drain[d].batch \ drain[d].dfailed
  ELSE IF drain[d].pc = "marked" THEN drain[d].failedIds
  ELSE {}

\* The process running the drain dies; an open claim transaction is rolled back.
Crash(d) ==
  /\ drain[d].pc # "idle"
  /\ crashes < MaxCrashes
  /\ crashes' = crashes + 1
  /\ orphaned' = orphaned \cup Unmarked(d)
  /\ drain' = [drain EXCEPT ![d] = IdleDrain]
  /\ UNCHANGED <<queue, payload, lastId, now, maxRetries, delivered>>

\* cleanupOldMessages: DELETE the processed and the exhausted rows older than the TTL.
Cleanup ==
  /\ \E i \in DOMAIN queue : Expired(queue[i])
  /\ queue' = [i \in {j \in DOMAIN queue : ~Expired(queue[j])} |-> queue[i]]
  /\ UNCHANGED <<payload, lastId, now, maxRetries, drain, delivered, orphaned, crashes>>

Next ==
  \/ \E c \in ChangeKinds : Enqueue(c) /\ UNCHANGED elsewhere
  \/ AdvanceTime /\ UNCHANGED elsewhere
  \/ \E d \in Drains : FetchStart(d) /\ UNCHANGED elsewhere
  \/ \E d \in Drains : FetchQuery(d) /\ UNCHANGED elsewhere
  \/ \E d \in Drains : FetchCommit(d) /\ UNCHANGED elsewhere
  \/ \E d \in Drains : DecodeFail(d) /\ UNCHANGED elsewhere
  \/ \E d \in Drains : Dispatch(d) /\ UNCHANGED elsewhere
  \/ \E d \in Drains : Settle(d) /\ UNCHANGED elsewhere
  \/ \E d \in Drains : MarkFailed(d) /\ UNCHANGED elsewhere
  \/ \E d \in Drains : Crash(d) /\ UNCHANGED elsewhere
  \/ Cleanup /\ UNCHANGED elsewhere

Spec == Init /\ [][Next]_vars

\* ---------------------------------------------- database errors in a drain
\* Variant: the failed claim transaction is committed.
Rollback_Applied(q, d) ==
  [i \in DOMAIN q |->
     IF i \in drain[d].batch THEN ClaimRow(q[i], drain[d].txNow) ELSE q[i]]

\* queryRunner.rollbackTransaction(): nothing of the transaction remains.
Rollback(q, d) == q

\* fetchPendingMessages: the query or the commit throws; the catch block rolls
\* the transaction back, logs and rethrows.  batch keeps the rows the failed
\* claim had selected.
FetchFails(d) ==
  /\ drain[d].pc \in {"begin", "fetch"}
  /\ queue' = Rollback(queue, d)
  /\ drain' = [drain EXCEPT ![d].pc = "release", ![d].txNow = NULL,
                            ![d].error = "fetchPendingMessages"]
  /\ UNCHANGED <<payload, lastId, now, maxRetries, delivered, orphaned, crashes>>

\* fetchPendingMessages: the finally block releases the query runner and the
\* error reaches the catch block of pullAndProcessMessages.
FetchRelease(d) ==
  /\ drain[d].pc = "release"
  /\ drain' = [drain EXCEPT ![d].pc = "caught"]
  /\ UNCHANGED <<queue, payload, lastId, now, maxRetries, delivered, orphaned, crashes>>

\* The decode loop: markAsFailed([message.id]) throws inside the catch block of
\* the loop body, which ends the loop.
DecodeFailThrows(d) ==
  /\ drain[d].pc = "decode"
  /\ \E i \in drain[d].batch \ drain[d].dfailed : ~Decodable(i)
  /\ drain' = [drain EXCEPT ![d].pc = "caught", ![d].error = "markAsFailed"]
  /\ UNCHANGED <<queue, payload, lastId, now, maxRetries, delivered, orphaned, crashes>>

\* processChanges: the listeners have settled and markAsProcessed throws.
MarkProcessedThrows(d) ==
  /\ drain[d].pc = "running"
  /\ drain' = [drain EXCEPT ![d].pc = "caught", ![d].error = "markAsProcessed"]
  /\ UNCHANGED <<queue, payload, lastId, now, maxRetries, delivered, orphaned, crashes>>

\* processChanges: markAsFailed(failedIds) throws.
MarkFailedThrows(d) ==
  /\ drain[d].pc = "marked"
  /\ drain' = [drain EXCEPT ![d].pc = "caught", ![d].error = "markAsFailed"]
  /\ UNCHANGED <<queue, payload, lastId, now, maxRetries, delivered, orphaned, crashes>>

\* pullAndProcessMessages: catch (error) logs, and the call resolves.
PullCaught(d) ==
  /\ drain[d].pc = "caught"
  /\ drain' = [drain EXCEPT ![d] = IdleDrain]
  /\ UNCHANGED <<queue, payload, lastId, now, maxRetries, delivered, orphaned, crashes>>

\* The drains of processes that do not crash, over a database whose statements
\* may fail.
ErrorNext ==
  \/ \E c \in ChangeKinds : Enqueue(c) /\ UNCHANGED elsewhere
  \/ AdvanceTime /\ UNCHANGED elsewhere
  \/ \E d \in Drains : FetchStart(d) /\ UNCHANGED elsewhere
  \/ \E d \in Drains : FetchQuery(d) /\ UNCHANGED elsewhere
  \/ \E d \in Drains : FetchCommit(d) /\ UNCHANGED elsewhere
  \/ \E d \in Drains : DecodeFail(d) /\ UNCHANGED elsewhere
  \/ \E d \in Drains : Dispatch(d) /\ UNCHANGED elsewhere
  \/ \E d \in Drains : Settle(d) /\ UNCHANGED elsewhere
  \/ \E d \in Drains : MarkFailed(d) /\ UNCHANGED elsewhere
  \/ \E d \in Drains : FetchFails(d) /\ UNCHANGED elsewhere
  \/ \E d \in Drains : FetchRelease(d) /\ UNCHANGED elsewhere
  \/ \E d \in Drains : DecodeFailThrows(d) /\ UNCHANGED elsewhere
  \/ \E d \in Drains : MarkProcessedThrows(d) /\ UNCHANGED elsewhere
  \/ \E d \in Drains : MarkFailedThrows(d) /\ UNCHANGED elsewhere
  \/ \E d \in Drains : PullCaught(d) /\ UNCHANGED elsewhere
  \/ Cleanup /\ UNCHANGED elsewhere

ErrorInit == Init /\ maxRetries = 1

ErrorSpec == ErrorInit /\ [][ErrorNext]_vars

\* ------------------------------------------------------ the listener's life
\* close() is called on the subscriber of the field, if there is one.
close(l) ==
  [l EXCEPT !.subscribed = FALSE,
            !.callbacks = 0,
            !.early = l.postgresSubscriber = "connecting"
                      \/ (@ /\ l.postgresSubscriber \in {"closing", "closed"}),
            !.postgresSubscriber =
               IF @ = "undefined" THEN "undefined" ELSE "closing"]

\* pause() up to its await: unsubscribe the polling, close the subscriber.
pause(l) ==
  [close(l) EXCEPT !.pollingSubscription = FALSE,
                   !.ticking = FALSE,
                   !.pausing = TRUE]

\* resume() up to connect(): the subscriber of the field or else a new one, the
\* handlers registered on it, connect().  connect() on a subscriber that was
\* connected, is connecting or was closed rejects and emits nothing.
resume(l) ==
  [l EXCEPT !.postgresSubscriber = IF @ = "undefined" THEN "connecting" ELSE @,
            !.handlers = IF l.postgresSubscriber = "undefined"
                         THEN {l.calls + 1} ELSE @ \cup {l.calls + 1},
            !.early = IF l.postgresSubscriber = "undefined" THEN FALSE ELSE @,
            !.calls = @ + 1,
            !.pending = @ \cup {l.calls + 1},
            !.paused = FALSE]

\* The promises of the resume() calls G resolve; suspendAndRun settles with
\* its own.
resolveAll(l, G) ==
  [l EXCEPT !.pending = @ \ G,
            !.sar = IF l.sar = "resume" /\ l.sarCall \in G
                    THEN (IF l.sarFailed THEN "rejected" ELSE "resolved")
                    ELSE @]

\* The promise of resume() call g resolves.
resolve(l, g) == resolveAll(l, {g})

SarIdle == listener.sar \in {"none", "resolved", "rejected"}

\* The application calls pause().
PauseBegin ==
  /\ SarIdle
  /\ ~listener.pausing
  /\ listener.calls >= 1
  /\ listener' = pause(listener)
  /\ UNCHANGED <<queueVars, sortVars, lockVars, triggerVars>>

\* pause() after close() returned: this.postgresSubscriber = undefined.  The
\* subscriber that leaves the field keeps its handlers and, when a resume()
\* during the await had made it the field's, its connection and callbacks.
PauseEnd ==
  /\ listener.pausing
  /\ listener' = [listener EXCEPT !.postgresSubscriber = "undefined",
                                    !.orphans =
                                       IF listener.postgresSubscriber = "connecting"
                                          \/ listener.early
                                       THEN @ \cup {listener.handlers} ELSE @,
                                    !.stray =
                                       @ \/ (listener.postgresSubscriber = "connected"
                                              /\ listener.subscribed),
                                    !.subscribed = FALSE,
                                    !.callbacks = 0,
                                    !.handlers = {},
                                    !.early = FALSE,
                                    !.pausing = FALSE,
                                    !.paused = TRUE,
                                    !.pausedAt = IF listener.paused THEN @ ELSE lastId,
                                    !.sar = IF @ = "pause" THEN "action" ELSE @]
  /\ UNCHANGED <<queueVars, sortVars, lockVars, triggerVars>>

\* onModuleInit or the application calls resume(), also while pause() awaits
\* close() or a subscriber is in the field.
ResumeBegin ==
  /\ SarIdle
  /\ listener.calls < MaxResumes
  /\ listener' = resume(listener)
  /\ UNCHANGED <<queueVars, sortVars, lockVars, triggerVars>>

\* The handlers of each subscriber whose connected event may come: the one of
\* the field while it connects or after it was closed early, and the orphans.
Emitters ==
  (IF listener.postgresSubscriber = "connecting" \/ listener.early
   THEN {listener.handlers} ELSE {}) \cup listener.orphans

\* The subscriber with the handlers H has emitted its connected event.
emitted(l, H) ==
  IF H \in l.orphans
  THEN [l EXCEPT !.orphans = @ \ {H}]
  ELSE [l EXCEPT !.postgresSubscriber = IF @ = "connecting" THEN "connected" ELSE @,
                 !.early = FALSE]

\* The connected event of a subscriber runs every connected handler registered
\* on it: listenForChanges returns at once when pollingSubscription is set,
\* and each handler resolves its promise.
ConnectedPolling(H) ==
  /\ H \in Emitters
  /\ listener.pollingSubscription
  /\ listener' = resolveAll(emitted(listener, H), H)
  /\ UNCHANGED <<queueVars, sortVars, lockVars, triggerVars>>

\* The connected event otherwise: the listenForChanges of every registered
\* handler starts its initial pull, handler g on the drain on[g].
ConnectedPull(H, on) ==
  /\ H \in Emitters
  /\ ~listener.pollingSubscription
  /\ \A g, h \in H : on[g] = on[h] => g = h
  /\ \A g \in H : drain[on[g]].pc = "idle"
  /\ drain' = [d \in Drains |->
                 IF \E g \in H : on[g] = d
                 THEN [IdleDrain EXCEPT !.pc = "begin", !.txNow = now]
                 ELSE drain[d]]
  /\ listener' = [emitted(listener, H) EXCEPT
                    !.lfc = [g \in 1..MaxResumes |->
                               IF g \in H THEN "pull" ELSE @[g]],
                    !.lfcDrain = [g \in 1..MaxResumes |->
                                    IF g \in H THEN on[g] ELSE @[g]]]
  /\ UNCHANGED <<queue, payload, lastId, now, maxRetries, delivered, orphaned,
                 crashes, sortVars, lockVars, triggerVars>>

\* listenForChanges after the initial pull: susbcribe awaits listenTo.
ListenTo(g) ==
  /\ listener.lfc[g] = "pull"
  /\ drain[listener.lfcDrain[g]].pc = "idle"
  /\ listener' = [listener EXCEPT !.lfc[g] = "listen"]
  /\ UNCHANGED <<queueVars, sortVars, lockVars, triggerVars>>

\* listenForChanges after listenTo: the notification callback is registered on
\* the subscriber there is now, the interval is stored, resume() resolves.
StartPolling(g) ==
  /\ listener.lfc[g] = "listen"
  /\ listener' =
       resolve([listener EXCEPT
                  !.lfc[g] = "none",
                  !.subscribed =
                     @ \/ listener.postgresSubscriber \in {"connecting", "connected"},
                  !.callbacks =
                     IF listener.postgresSubscriber \in {"connecting", "connected"}
                     THEN @ + 1 ELSE @,
                  !.leaked = @ \/ listener.ticking,
                  !.pollingSubscription = TRUE,
                  !.ticking = TRUE], g)
  /\ UNCHANGED <<queueVars, sortVars, lockVars, triggerVars>>

\* A drain of the initial pull is in flight on d.
PullingOn(d) ==
  \E g \in 1..MaxResumes : listener.lfc[g] = "pull" /\ listener.lfcDrain[g] = d

\* A notification reaches the registered callback: pullAndProcessMessages.
Notification(d) ==
  /\ \/ listener.subscribed /\ listener.postgresSubscriber = "connected"
     \/ listener.stray
  /\ ~PullingOn(d)
  /\ FetchStart(d)
  /\ UNCHANGED <<sortVars, listener, lockVars, triggerVars>>

\* The fallback interval ticks: pullAndProcessMessages.
FallbackTick(d) ==
  /\ listener.ticking \/ listener.leaked
  /\ ~PullingOn(d)
  /\ FetchStart(d)
  /\ UNCHANGED <<sortVars, listener, lockVars, triggerVars>>

\* onModuleDestroy: the interval is unsubscribed and stays in the field; await
\* queueService.teardown().
DestroyBegin ==
  /\ listener.destroy = "none"
  /\ listener.calls >= 1
  /\ listener' = [listener EXCEPT !.ticking = FALSE, !.destroy = "teardown"]
  /\ UNCHANGED <<queueVars, sortVars, lockVars, triggerVars>>

\* onModuleDestroy after teardown: await this.postgresSubscriber?.close().
DestroyClose ==
  /\ listener.destroy = "teardown"
  /\ listener' =
       IF listener.postgresSubscriber = "undefined"
       THEN [listener EXCEPT !.destroy = "done"]
       ELSE [close(listener) EXCEPT !.destroy = "close"]
  /\ UNCHANGED <<queueVars, sortVars, lockVars, triggerVars>>

\* onModuleDestroy after close() returned: the closed subscriber stays in the
\* field.
DestroyEnd ==
  /\ listener.destroy = "close"
  /\ listener' = [listener EXCEPT
                    !.destroy = "done",
                    !.postgresSubscriber = IF @ = "closing" THEN "closed" ELSE @]
  /\ UNCHANGED <<queueVars, sortVars, lockVars, triggerVars>>

\* suspendAndRun(action): await this.pause().
SuspendAndRun ==
  /\ listener.sar = "none"
  /\ ~listener.pausing
  /\ listener.calls >= 1
  /\ listener.calls < MaxResumes
  /\ listener' = [pause(listener) EXCEPT !.sar = "pause"]
  /\ UNCHANGED <<queueVars, sortVars, lockVars, triggerVars>>

\* suspendAndRun: action() resolved or rejected; finally, await this.resume().
ActionSettled(ok) ==
  /\ listener.sar = "action"
  /\ listener' = [resume(listener) EXCEPT !.sar = "resume",
                                            !.sarCall = listener.calls + 1,
                                            !.sarFailed = ~ok]
  /\ UNCHANGED <<queueVars, sortVars, lockVars, triggerVars>>

\* Every listener resolves without calling onError.
AllSucceed(d) ==
  MarkProcessed(d, [k \in 1..Len(drain[d].calls) |-> {}],
                   [k \in 1..Len(drain[d].calls) |-> FALSE])

\* The listener's life is followed with inserts on registered tables, handlers
\* that succeed and a clock that stands still.
ListenerInit == Init /\ maxRetries = MaxRetriesBound

ListenerNext ==
  \/ \E c \in {k \in ChangeKinds : k.table \in tableNames /\ k.event = "INSERT"} :
       Enqueue(c) /\ UNCHANGED elsewhere
  \/ PauseBegin
  \/ PauseEnd
  \/ ResumeBegin
  \/ \E H \in Emitters : ConnectedPolling(H)
  \/ \E H \in Emitters : \E on \in [H -> Drains] : ConnectedPull(H, on)
  \/ \E g \in 1..MaxResumes : ListenTo(g)
  \/ \E g \in 1..MaxResumes : StartPolling(g)
  \/ \E d \in Drains : Notification(d)
  \/ \E d \in Drains : FallbackTick(d)
  \/ SuspendAndRun
  \/ \E ok \in BOOLEAN : ActionSettled(ok)
  \/ DestroyBegin
  \/ DestroyClose
  \/ DestroyEnd
  \/ \E d \in Drains : FetchQuery(d) /\ UNCHANGED elsewhere
  \/ \E d \in Drains : FetchCommit(d) /\ UNCHANGED elsewhere
  \/ \E d \in Drains : Dispatch(d) /\ UNCHANGED elsewhere
  \/ \E d \in Drains : AllSucceed(d) /\ UNCHANGED elsewhere

ListenerSpec == ListenerInit /\ [][ListenerNext]_vars

\* ------------------------------------------------------------ the lock
\* An instance calls tryLock; the query is on its way.
TryLock(i, d, at, rt) ==
  /\ lockCall[i].pc \in {"idle", "done"}
  /\ ~lockCall[i].init
  /\ advisory.holder = i => advisory.count < MaxStack
  /\ lockCall' = [lockCall EXCEPT ![i] =
                     [NoCall EXCEPT !.pc = "query", !.duration = d,
                                    !.acceptThrows = at, !.rejectThrows = rt]]
  /\ UNCHANGED <<advisory, activeLocks, lockNow, startup, timers>>

\* onModuleInit: tryLock on pg_pubsub for 5 s; onAccept sets up the queue and
\* reconciles the triggers, which a database error makes throw; onReject logs.
OnModuleInit(i) ==
  /\ lockCall[i].pc = "idle"
  /\ advisory.holder = i => advisory.count < MaxStack
  /\ \E fails \in BOOLEAN :
       lockCall' = [lockCall EXCEPT ![i] =
                       [NoCall EXCEPT !.pc = "query", !.init = TRUE,
                                      !.acceptThrows = fails,
                                      !.duration = PG_PUBSUB_LOCK_DURATION]]
  /\ startup' = [startup EXCEPT ![i].phase = "locking"]
  /\ UNCHANGED <<advisory, activeLocks, lockNow, timers>>

\* The instance whose pub/sub service the variable listener follows.
Observed == "a"

\* onModuleInit after tryLock returned: await this.resume(), which creates the
\* subscriber and calls connect(); a tryLock that threw ends onModuleInit.
InitResume(i) ==
  /\ lockCall[i].pc = "done"
  /\ lockCall[i].init
  /\ listener.calls < MaxResumes
  /\ LET resumes == ~lockCall[i].threw /\ i = Observed IN
       /\ startup' = [startup EXCEPT ![i] =
                         [phase |-> IF lockCall[i].threw THEN "failed" ELSE "resuming",
                          setupFailed |-> lockCall[i].accepts > 0 /\ lockCall[i].acceptThrows,
                          call |-> IF resumes THEN listener.calls + 1 ELSE 0]]
       /\ listener' = IF resumes THEN resume(listener) ELSE listener
  /\ lockCall' = [lockCall EXCEPT ![i].init = FALSE]
  /\ UNCHANGED <<advisory, activeLocks, lockNow, timers>>

\* onModuleInit returns once the promise of its resume() resolved, after the
\* connected event and listenForChanges.
InitReturns(i) ==
  /\ startup[i].phase = "resuming"
  /\ i = Observed => startup[i].call \notin listener.pending
  /\ startup' = [startup EXCEPT ![i].phase = "listening"]
  /\ UNCHANGED <<advisory, lockCall, activeLocks, lockNow, timers, listener>>

\* The query returned acquired: the release is scheduled, replacing the timer
\* there was, and onAccept is invoked.
LockAccepted(i) ==
  /\ lockCall[i].pc = "query"
  /\ Acquired(i)
  /\ advisory' = [holder |-> i, count |-> advisory.count + 1]
  /\ activeLocks' =
       [activeLocks EXCEPT ![i] = lockNow + EffectiveDuration(lockCall[i].duration)]
  /\ timers' = [timers EXCEPT ![i] =
                   setTimeout(clearTimeout(@),
                              lockNow + EffectiveDuration(lockCall[i].duration))]
  /\ lockCall' = [lockCall EXCEPT ![i].pc = "accept", ![i].accepts = @ + 1,
                                   ![i].duration = NULL]
  /\ UNCHANGED <<lockNow, startup>>

\* The query returned not acquired: onReject is invoked.
LockRejected(i) ==
  /\ lockCall[i].pc = "query"
  /\ ~Acquired(i)
  /\ lockCall' = [lockCall EXCEPT ![i].pc = "reject", ![i].blocked = TRUE,
                                   ![i].rejects = @ + 1, ![i].duration = NULL]
  /\ UNCHANGED <<advisory, activeLocks, lockNow, startup, timers>>

\* The query threw: the catch block invokes onReject(error).
QueryFailed(i) ==
  /\ lockCall[i].pc = "query"
  /\ lockCall' = [lockCall EXCEPT ![i].pc = "catch", ![i].rejects = @ + 1,
                                   ![i].duration = NULL]
  /\ UNCHANGED <<advisory, activeLocks, lockNow, startup, timers>>

\* onAccept settles: tryLock returns, or the catch block invokes onReject(error).
AcceptSettled(i) ==
  /\ lockCall[i].pc = "accept"
  /\ lockCall' = [lockCall EXCEPT ![i] =
                     IF lockCall[i].acceptThrows
                     THEN [@ EXCEPT !.pc = "catch", !.rejects = @ + 1]
                     ELSE Returned(@)]
  /\ UNCHANGED <<advisory, activeLocks, lockNow, startup, timers>>

\* The onReject of the try block settles: tryLock returns, or the catch block
\* invokes onReject(error).
RejectSettled(i) ==
  /\ lockCall[i].pc = "reject"
  /\ lockCall' = [lockCall EXCEPT ![i] =
                     IF lockCall[i].rejectThrows
                     THEN [@ EXCEPT !.pc = "catch", !.rejects = @ + 1]
                     ELSE Returned(@)]
  /\ UNCHANGED <<advisory, activeLocks, lockNow, startup, timers>>

\* The onReject of the catch block settles; what it throws leaves tryLock.
CatchSettled(i) ==
  /\ lockCall[i].pc = "catch"
  /\ lockCall' = [lockCall EXCEPT ![i] =
                     Returned([@ EXCEPT !.threw = lockCall[i].rejectThrows])]
  /\ UNCHANGED <<advisory, activeLocks, lockNow, startup, timers>>

\* A release timer fires: its callback sends pg_advisory_unlock and awaits it.
TimerFires(i) ==
  /\ \E t \in timers[i].pending :
       /\ lockNow >= t.due
       /\ timers' = [timers EXCEPT ![i].pending = @ \ {t},
                                   ![i].unlocking = @ + 1]
  /\ UNCHANGED <<advisory, lockCall, activeLocks, lockNow, startup>>

\* The unlock query returned: this.activeLocks.delete(key).
UnlockDone(i) ==
  /\ timers[i].unlocking > 0
  /\ advisory' = Unlocked(i)
  /\ activeLocks' = [activeLocks EXCEPT ![i] = NULL]
  /\ timers' = [timers EXCEPT ![i].entry = 0, ![i].unlocking = @ - 1]
  /\ UNCHANGED <<lockCall, lockNow, startup>>

\* The unlock query threw: the callback logs, the entry stays in activeLocks.
UnlockFails(i) ==
  /\ timers[i].unlocking > 0
  /\ timers' = [timers EXCEPT ![i].unlocking = @ - 1]
  /\ UNCHANGED <<advisory, lockCall, activeLocks, lockNow, startup>>

\* Time passes until the next pending timer is due.
NextTimer ==
  Min({t.due : t \in UNION {timers[i].pending : i \in Instances}})

TimerTick ==
  /\ \E i \in Instances : timers[i].pending # {}
  /\ lockNow < NextTimer
  /\ NextTimer <= MaxLockTime
  /\ lockNow' = NextTimer
  /\ UNCHANGED <<advisory, lockCall, activeLocks, startup, timers>>

LockNext ==
  \/ \E i \in Instances : \E d \in Durations : \E at \in BOOLEAN : \E rt \in BOOLEAN :
       TryLock(i, d, at, rt) /\ UNCHANGED <<queueVars, sortVars, listener, triggerVars>>
  \/ \E i \in Instances : LockAccepted(i) /\ UNCHANGED <<queueVars, sortVars, listener, triggerVars>>
  \/ \E i \in Instances : LockRejected(i) /\ UNCHANGED <<queueVars, sortVars, listener, triggerVars>>
  \/ \E i \in Instances : QueryFailed(i) /\ UNCHANGED <<queueVars, sortVars, listener, triggerVars>>
  \/ \E i \in Instances : AcceptSettled(i) /\ UNCHANGED <<queueVars, sortVars, listener, triggerVars>>
  \/ \E i \in Instances : RejectSettled(i) /\ UNCHANGED <<queueVars, sortVars, listener, triggerVars>>
  \/ \E i \in Instances : CatchSettled(i) /\ UNCHANGED <<queueVars, sortVars, listener, triggerVars>>
  \/ \E i \in Instances : TimerFires(i) /\ UNCHANGED <<queueVars, sortVars, listener, triggerVars>>
  \/ \E i \in Instances : UnlockDone(i) /\ UNCHANGED <<queueVars, sortVars, listener, triggerVars>>
  \/ \E i \in Instances : UnlockFails(i) /\ UNCHANGED <<queueVars, sortVars, listener, triggerVars>>
  \/ TimerTick /\ UNCHANGED <<queueVars, sortVars, listener, triggerVars>>

LockInit == Init /\ maxRetries = MaxRetriesBound

LockSpec == LockInit /\ [][LockNext]_vars

\* The start of the instances: onModuleInit with its lock, the timers of the
\* lock service and, for the observed instance, the connected event and
\* listenForChanges of the resume() that onModuleInit awaits.
StartupNext ==
  \/ \E i \in Instances : OnModuleInit(i) /\ UNCHANGED <<queueVars, sortVars, listener, triggerVars>>
  \/ \E i \in Instances : InitResume(i) /\ UNCHANGED <<queueVars, sortVars, triggerVars>>
  \/ \E i \in Instances : InitReturns(i) /\ UNCHANGED <<queueVars, sortVars, triggerVars>>
  \/ \E i \in Instances : LockAccepted(i) /\ UNCHANGED <<queueVars, sortVars, listener, triggerVars>>
  \/ \E i \in Instances : LockRejected(i) /\ UNCHANGED <<queueVars, sortVars, listener, triggerVars>>
  \/ \E i \in Instances : QueryFailed(i) /\ UNCHANGED <<queueVars, sortVars, listener, triggerVars>>
  \/ \E i \in Instances : AcceptSettled(i) /\ UNCHANGED <<queueVars, sortVars, listener, triggerVars>>
  \/ \E i \in Instances : RejectSettled(i) /\ UNCHANGED <<queueVars, sortVars, listener, triggerVars>>
  \/ \E i \in Instances : CatchSettled(i) /\ UNCHANGED <<queueVars, sortVars, listener, triggerVars>>
  \/ \E i \in Instances : TimerFires(i) /\ UNCHANGED <<queueVars, sortVars, listener, triggerVars>>
  \/ \E i \in Instances : UnlockDone(i) /\ UNCHANGED <<queueVars, sortVars, listener, triggerVars>>
  \/ \E i \in Instances : UnlockFails(i) /\ UNCHANGED <<queueVars, sortVars, listener, triggerVars>>
  \/ TimerTick /\ UNCHANGED <<queueVars, sortVars, listener, triggerVars>>
  \/ \E H \in Emitters : \E on \in [H -> Drains] : ConnectedPull(H, on)
  \/ \E d \in Drains : FetchQuery(d) /\ UNCHANGED elsewhere
  \/ \E d \in Drains : FetchCommit(d) /\ UNCHANGED elsewhere
  \/ \E g \in 1..MaxResumes : ListenTo(g)
  \/ \E g \in 1..MaxResumes : StartPolling(g)

StartupSpec == LockInit /\ [][StartupNext]_vars

\* ------------------------------------------------- the release timers
\* tryLock with callbacks that do not throw, and the timer callbacks step by
\* step.
TimerNext ==
  \/ \E i \in Instances : \E d \in Durations :
       TryLock(i, d, FALSE, FALSE) /\ UNCHANGED <<queueVars, sortVars, listener, triggerVars>>
  \/ \E i \in Instances : LockAccepted(i) /\ UNCHANGED <<queueVars, sortVars, listener, triggerVars>>
  \/ \E i \in Instances : LockRejected(i) /\ UNCHANGED <<queueVars, sortVars, listener, triggerVars>>
  \/ \E i \in Instances : AcceptSettled(i) /\ UNCHANGED <<queueVars, sortVars, listener, triggerVars>>
  \/ \E i \in Instances : RejectSettled(i) /\ UNCHANGED <<queueVars, sortVars, listener, triggerVars>>
  \/ \E i \in Instances : TimerFires(i) /\ UNCHANGED <<queueVars, sortVars, listener, triggerVars>>
  \/ \E i \in Instances : UnlockDone(i) /\ UNCHANGED <<queueVars, sortVars, listener, triggerVars>>
  \/ \E i \in Instances : UnlockFails(i) /\ UNCHANGED <<queueVars, sortVars, listener, triggerVars>>
  \/ TimerTick /\ UNCHANGED <<queueVars, sortVars, listener, triggerVars>>

TimerInit == Init /\ maxRetries = MaxRetriesBound

TimerSpec == TimerInit /\ [][TimerNext]_vars

\* ------------------------------------------------------ the triggers
\* setupTriggers is called with a discovery.  The differential service lists
\* the existing triggers and goes on to upsert; the atomic service opens a
\* transaction and lists them.
SetupTriggers(strategy, desired) ==
  /\ reconcile.pc \in {"idle", "done"}
  /\ reconcile' =
       [pc |-> IF strategy = "atomic" THEN "connect" ELSE "upsert",
        strategy |-> strategy, desired |-> desired, start |-> installed,
        existing |-> IF strategy = "atomic" THEN {} ELSE listTriggers(installed),
        todo |-> desired,
        txn |-> installed, locked |-> {},
        repeat |-> reconcile.pc = "done" /\ desired = reconcile.desired,
        calls |-> IF strategy = "differential" /\ desired # {}
                  THEN <<"createTriggers">> ELSE << >>,
        dropped |-> {},
        tx |-> "none",
        runner |-> IF strategy = "atomic" THEN "created" ELSE "none",
        failed |-> FALSE, threw |-> FALSE]
  /\ UNCHANGED <<installed, change>>

\* Atomic: await queryRunner.connect() returned.
AtomicConnect ==
  /\ reconcile.pc = "connect"
  /\ reconcile' = [reconcile EXCEPT !.pc = "begin", !.runner = "open"]
  /\ UNCHANGED <<installed, change>>

\* Atomic: await queryRunner.startTransaction() returned; the try block is
\* entered.
AtomicBegin ==
  /\ reconcile.pc = "begin"
  /\ reconcile' = [reconcile EXCEPT !.pc = "list", !.tx = "active"]
  /\ UNCHANGED <<installed, change>>

\* Atomic: await this.listTriggers() returned.
AtomicList ==
  /\ reconcile.pc = "list"
  /\ reconcile' = [reconcile EXCEPT !.pc = "drop",
                                     !.existing = listTriggers(installed),
                                     !.txn = installed]
  /\ UNCHANGED <<installed, change>>

\* Differential: one query of createTriggers's Promise.all is executed; its
\* statements run as one transaction.
UpsertTrigger(l) ==
  /\ reconcile.pc = "upsert"
  /\ l \in reconcile.todo
  /\ installed' = createTriggers(installed, {l})
  /\ reconcile' = [reconcile EXCEPT !.todo = @ \ {l}]
  /\ UNCHANGED change

\* Differential: all upserts are done; the obsolete triggers are dropped in one
\* query.
DropObsolete ==
  /\ reconcile.pc = "upsert"
  /\ reconcile.todo = {}
  /\ LET obsolete == triggersToRemove(reconcile.existing, reconcile.desired)
     IN /\ installed' = dropTriggers(installed, obsolete)
        /\ reconcile' =
             [reconcile EXCEPT !.pc = "returning",
                               !.dropped = obsolete,
                               !.calls = IF obsolete # {}
                                         THEN Append(@, "dropTriggers") ELSE @]
  /\ UNCHANGED change

\* Atomic: every listed trigger is dropped by one query inside the
\* transaction, which locks the tables of the dropped triggers until it ends;
\* createTriggers is called, which sends one query per desired trigger.
AtomicDrop ==
  /\ reconcile.pc = "drop"
  /\ reconcile' =
       [reconcile EXCEPT !.pc = IF reconcile.desired = {} THEN "commit" ELSE "create",
                         !.calls = @ \o <<"dropTriggers", "createTriggers">>,
                         !.todo = reconcile.desired,
                         !.dropped = reconcile.existing,
                         !.txn = dropTriggers(@, reconcile.existing),
                         !.locked = {TriggerKey(t) : t \in installed}]
  /\ UNCHANGED <<installed, change>>

\* Atomic: one query of createTriggers's Promise.all is executed inside the
\* transaction, which locks the table of the trigger; after the last one
\* createTriggers returns.
AtomicCreate(l) ==
  /\ reconcile.pc = "create"
  /\ l \in reconcile.todo
  /\ reconcile' =
       [reconcile EXCEPT !.pc = IF reconcile.todo = {l} THEN "commit" ELSE "create",
                         !.todo = @ \ {l},
                         !.txn = createTriggers(@, {l}),
                         !.locked = @ \cup {TriggerKey(l)}]
  /\ UNCHANGED <<installed, change>>

\* Atomic: the transaction commits.
AtomicCommit ==
  /\ reconcile.pc = "commit"
  /\ installed' = reconcile.txn
  /\ reconcile' = [reconcile EXCEPT !.pc = "returning", !.locked = {},
                                     !.tx = "committed"]
  /\ UNCHANGED change

\* setupTriggers returns or throws; the atomic service releases its query
\* runner in the finally block.
SetupReturns ==
  /\ reconcile.pc = "returning"
  /\ reconcile' = [reconcile EXCEPT !.pc = "done",
                                     !.runner = IF @ = "open" THEN "released" ELSE @,
                                     !.threw = reconcile.failed]
  /\ UNCHANGED <<installed, change>>

\* setupTriggers is running, and a trigger that was installed when it began and
\* a trigger that it desires both fire on the change.
Kept(s, t, e) ==
  /\ reconcile.pc \notin {"idle", "done"}
  /\ \E l \in reconcile.desired : l.schema = s /\ l.table = t /\ e \in TriggerEvents(l.events)
  /\ \E g \in reconcile.start : g.schema = s /\ g.table = t /\ e \in g.events

\* A row of a user table is inserted, updated or deleted by some session, which
\* waits while a transaction holds the lock of the table.  An installed trigger
\* of the table for the event inserts the change into the queue.
RowChange(s, t, e) ==
  /\ <<s, t>> \notin reconcile.locked
  /\ change' = [schema |-> s, table |-> t, event |-> e,
                enqueued |-> \E g \in installed :
                                g.schema = s /\ g.table = t /\ e \in g.events,
                kept |-> Kept(s, t, e)]
  /\ UNCHANGED <<installed, reconcile>>

TriggerNext ==
  \/ \E strategy \in {"atomic", "differential"} : \E desired \in Discoveries :
       SetupTriggers(strategy, desired) /\ UNCHANGED <<queueVars, sortVars, listener, lockVars>>
  \/ \E l \in TableListeners : UpsertTrigger(l) /\ UNCHANGED <<queueVars, sortVars, listener, lockVars>>
  \/ DropObsolete /\ UNCHANGED <<queueVars, sortVars, listener, lockVars>>
  \/ AtomicConnect /\ UNCHANGED <<queueVars, sortVars, listener, lockVars>>
  \/ AtomicBegin /\ UNCHANGED <<queueVars, sortVars, listener, lockVars>>
  \/ AtomicList /\ UNCHANGED <<queueVars, sortVars, listener, lockVars>>
  \/ AtomicDrop /\ UNCHANGED <<queueVars, sortVars, listener, lockVars>>
  \/ \E l \in TableListeners :
       AtomicCreate(l) /\ UNCHANGED <<queueVars, sortVars, listener, lockVars>>
  \/ AtomicCommit /\ UNCHANGED <<queueVars, sortVars, listener, lockVars>>
  \/ SetupReturns /\ UNCHANGED <<queueVars, sortVars, listener, lockVars>>
  \/ \E s \in TriggerSchemas : \E t \in TriggerTables : \E e \in PgTableChangeType :
       RowChange(s, t, e) /\ UNCHANGED <<queueVars, sortVars, listener, lockVars>>

TriggerInit == Init /\ maxRetries = MaxRetriesBound

TriggerSpec == TriggerInit /\ [][TriggerNext]_vars

\* ------------------------------------- the differential service, two schemas
DiffSchemas == {"public", "private"}

DiffListeners == [table : {"Users", "users"}, schema : DiffSchemas, events : EventLists]

DiffDiscoveries ==
  {D \in SUBSET DiffListeners : \A a \in D : \A b \in D : a.table = b.table => a = b}

DiffNext ==
  \/ \E desired \in DiffDiscoveries :
       SetupTriggers("differential", desired) /\ UNCHANGED <<queueVars, sortVars, listener, lockVars>>
  \/ \E l \in DiffListeners : UpsertTrigger(l) /\ UNCHANGED <<queueVars, sortVars, listener, lockVars>>
  \/ DropObsolete /\ UNCHANGED <<queueVars, sortVars, listener, lockVars>>
  \/ SetupReturns /\ UNCHANGED <<queueVars, sortVars, listener, lockVars>>

DiffInit == Init /\ maxRetries = MaxRetriesBound

DiffSpec == DiffInit /\ [][DiffNext]_vars

\* ------------------------------------------ the atomic service, with errors
\* queryRunner.rollbackTransaction(): the database is as it was before the
\* transaction, whatever the transaction had done.
rollbackTransaction(db, txn) == db

\* Atomic: connect() or startTransaction() rejects.  Both are awaited before
\* the try block: setupTriggers throws, and neither the catch block nor the
\* finally block runs.
AtomicBeginFails ==
  /\ reconcile.pc \in {"connect", "begin"}
  /\ reconcile' = [reconcile EXCEPT !.pc = "done", !.failed = TRUE, !.threw = TRUE]
  /\ UNCHANGED <<installed, change>>

\* Atomic: listTriggers, a statement of dropTriggers or createTriggers, or the
\* commit throws; the rest of the try block is skipped.
AtomicFails ==
  /\ reconcile.pc \in {"list", "drop", "create", "commit"}
  /\ reconcile' = [reconcile EXCEPT !.pc = "catch", !.failed = TRUE]
  /\ UNCHANGED <<installed, change>>

\* Atomic: the catch block rolls the transaction back, which releases the table
\* locks, and rethrows.
AtomicRollback ==
  /\ reconcile.pc = "catch"
  /\ installed' = rollbackTransaction(installed, reconcile.txn)
  /\ reconcile' = [reconcile EXCEPT !.pc = "returning", !.tx = "rolledBack",
                                     !.txn = installed', !.locked = {}]
  /\ UNCHANGED change

AtomicNext ==
  \/ \E desired \in Discoveries :
       SetupTriggers("atomic", desired) /\ UNCHANGED <<queueVars, sortVars, listener, lockVars>>
  \/ AtomicConnect /\ UNCHANGED <<queueVars, sortVars, listener, lockVars>>
  \/ AtomicBegin /\ UNCHANGED <<queueVars, sortVars, listener, lockVars>>
  \/ AtomicList /\ UNCHANGED <<queueVars, sortVars, listener, lockVars>>
  \/ AtomicBeginFails /\ UNCHANGED <<queueVars, sortVars, listener, lockVars>>
  \/ AtomicDrop /\ UNCHANGED <<queueVars, sortVars, listener, lockVars>>
  \/ \E l \in TableListeners :
       AtomicCreate(l) /\ UNCHANGED <<queueVars, sortVars, listener, lockVars>>
  \/ AtomicCommit /\ UNCHANGED <<queueVars, sortVars, listener, lockVars>>
  \/ AtomicFails /\ UNCHANGED <<queueVars, sortVars, listener, lockVars>>
  \/ AtomicRollback /\ UNCHANGED <<queueVars, sortVars, listener, lockVars>>
  \/ SetupReturns /\ UNCHANGED <<queueVars, sortVars, listener, lockVars>>

AtomicInit == Init /\ maxRetries = MaxRetriesBound

AtomicSpec == AtomicInit /\ [][AtomicNext]_vars

\* ------------------------------------------------- one claim, a long queue
\* The channel of another module that shares the queue table.
OtherChannel == "other_prefix"

\* A row as the trigger inserted it at time 0.
PlainRow ==
  [channel |-> triggerPrefix, status |-> PENDING, retry_count |-> 0,
   next_retry_at |-> NULL, processed_at |-> NULL, created_at |-> 0]

\* That row, and rows as the queue service leaves them: of another channel,
\* claimed, processed, failed and due again, failed and not yet due, failed for
\* the last time.
FetchRows ==
  LET plain == PlainRow
  IN { plain,
       [plain EXCEPT !.channel = OtherChannel],
       [plain EXCEPT !.status = PROCESSING, !.next_retry_at = CLAIM_DEADLINE],
       [plain EXCEPT !.status = PROCESSED, !.processed_at = 1],
       [plain EXCEPT !.status = FAILED, !.retry_count = 1,
                     !.next_retry_at = FetchTime - 1],
       [plain EXCEPT !.status = FAILED, !.retry_count = 1,
                     !.next_retry_at = FetchTime + 1],
       [plain EXCEPT !.status = FAILED, !.retry_count = MaxRetriesBound,
                     !.next_retry_at = FetchTime] }

\* The ids whose rows vary; every other row is as the trigger inserted it.
VariedIds == {1, 2, BATCH_SIZE_LIMIT}

FetchInit ==
  /\ \E n \in (MaxFetchRows - 2)..MaxFetchRows : \E v \in [VariedIds -> FetchRows] :
       /\ queue = [i \in 1..n |-> IF i \in VariedIds THEN v[i] ELSE PlainRow]
       /\ payload = [i \in 1..n |-> [table |-> "users", event |-> "INSERT"]]
       /\ lastId = n
  /\ now = FetchTime
  /\ maxRetries = MaxRetriesBound
  /\ drain = [d \in Drains |-> IdleDrain]
  /\ delivered = {}
  /\ orphaned = {}
  /\ crashes = 0
  /\ returned = << >>
  /\ handed = << >>
  /\ call = NoServiceCall
  /\ listener = StoppedListener
  /\ advisory = FreeLock
  /\ lockCall = [i \in Instances |-> NoCall]
  /\ activeLocks = [i \in Instances |-> NULL]
  /\ lockNow = 0
  /\ startup = [i \in Instances |-> NotStarted]
  /\ timers = [i \in Instances |-> NoTimers]
  /\ installed = {}
  /\ reconcile = NoSetup
  /\ change = NoChange

\* A minute passes between the BEGIN of a claim and its statement.
FetchTick ==
  /\ \E d \in Drains : drain[d].pc = "begin"
  /\ now < FetchTime + 1
  /\ now' = now + 1
  /\ UNCHANGED <<queue, payload, lastId, maxRetries, drain, delivered, orphaned,
                 crashes>>

FetchNext ==
  \/ \E d \in Drains : FetchStart(d) /\ UNCHANGED elsewhere
  \/ \E d \in Drains : FetchQuery(d) /\ UNCHANGED elsewhere
  \/ \E d \in Drains : FetchCommit(d) /\ UNCHANGED elsewhere
  \/ FetchTick /\ UNCHANGED elsewhere

FetchSpec == FetchInit /\ [][FetchNext]_vars

\* ------------------------------------------- markAsProcessed, called directly
\* Two rows in any state the queue service leaves rows in.
MarkInit ==
  /\ queue \in [1..2 -> FetchRows]
  /\ payload = [i \in 1..2 |-> [table |-> "users", event |-> "INSERT"]]
  /\ lastId = 2
  /\ now = FetchTime
  /\ maxRetries = MaxRetriesBound
  /\ drain = [d \in Drains |-> IdleDrain]
  /\ delivered = {}
  /\ orphaned = {}
  /\ crashes = 0
  /\ returned = << >>
  /\ handed = << >>
  /\ call = NoServiceCall
  /\ listener = StoppedListener
  /\ advisory = FreeLock
  /\ lockCall = [i \in Instances |-> NoCall]
  /\ activeLocks = [i \in Instances |-> NULL]
  /\ lockNow = 0
  /\ startup = [i \in Instances |-> NotStarted]
  /\ timers = [i \in Instances |-> NoTimers]
  /\ installed = {}
  /\ reconcile = NoSetup
  /\ change = NoChange

\* queueService.markAsProcessed(ids); an id of no row matches nothing.
CallMarkAsProcessed(ids) ==
  /\ queue' = markAsProcessed(queue, ids)
  /\ call' = [op |-> "markAsProcessed", ids |-> ids, at |-> now]
  /\ UNCHANGED <<payload, lastId, now, maxRetries, drain, delivered, orphaned,
                 crashes, returned, handed>>

\* A minute passes.
MarkTick ==
  /\ now < FetchTime + MaxMarkTicks
  /\ now' = now + 1
  /\ UNCHANGED <<queue, payload, lastId, maxRetries, drain, delivered, orphaned,
                 crashes, returned, handed, call>>

MarkNext ==
  \/ \E ids \in SUBSET (1..3) :
       CallMarkAsProcessed(ids) /\ UNCHANGED <<listener, lockVars, triggerVars>>
  \/ MarkTick /\ UNCHANGED <<listener, lockVars, triggerVars>>

MarkSpec == MarkInit /\ [][MarkNext]_vars

\* ------------------------------------------- discovery, called directly
\* discoverListeners, once, with the providers the application registers.
Discover(provs) ==
  /\ call = NoServiceCall
  /\ call' = [op |-> "processDiscoveredListeners", providers |-> provs,
              listeners |-> processDiscoveredListeners(provs)]
  /\ UNCHANGED <<queueVars, returned, handed>>

DiscoverNext ==
  \E provs \in UNION {[1..n -> Registrations] : n \in 1..MaxProviders} :
    Discover(provs) /\ UNCHANGED <<listener, lockVars, triggerVars>>

DiscoverInit == Init /\ maxRetries = MaxRetriesBound

DiscoverSpec == DiscoverInit /\ [][DiscoverNext]_vars

\* ------------------------------------------- hashStringToInt, called directly
\* hashStringToInt(str).
CallHash(str) ==
  /\ call = NoServiceCall
  /\ call' = [op |-> "hashStringToInt", str |-> str,
              result |-> hashStringToInt(str), again |-> NULL]
  /\ UNCHANGED <<queueVars, returned, handed>>

\* A second call with the string of the first.
CallHashAgain ==
  /\ call.op = "hashStringToInt"
  /\ call.again = NULL
  /\ call' = [call EXCEPT !.again = hashStringToInt(call.str)]
  /\ UNCHANGED <<queueVars, returned, handed>>

HashNext ==
  \/ \E str \in HashStrings :
       CallHash(str) /\ UNCHANGED <<listener, lockVars, triggerVars>>
  \/ CallHashAgain /\ UNCHANGED <<listener, lockVars, triggerVars>>

HashInit == Init /\ maxRetries = MaxRetriesBound

HashSpec == HashInit /\ [][HashNext]_vars

\* ------------------------------------------- one UPDATE message, decoded
\* The UPDATE case of the decode loop for a payload with data.old and data.new.
DecodeUpdate(old, new) ==
  /\ call = NoServiceCall
  /\ call' = [op |-> "UPDATE", old |-> createEntity(old), new |-> createEntity(new),
              updatedFields |-> updatedFields(createEntity(old), createEntity(new))]
  /\ UNCHANGED <<queueVars, returned, handed>>

UpdateNext ==
  \E old \in RowData : \E new \in RowData :
    DecodeUpdate(old, new) /\ UNCHANGED <<listener, lockVars, triggerVars>>

UpdateInit == Init /\ maxRetries = MaxRetriesBound

UpdateSpec == UpdateInit /\ [][UpdateNext]_vars

\* ------------------------------------------------------- cleanup passes
\* The rows a queue can hold: a row created at c is pending; claimed at t it is
\* processing with the deadline of the claim; marked at u it is processed, or
\* failed with one retry more and the backoff of markAsFailed.  A row claimed
\* again (retry r) failed r times before, each backoff at least one tick.
CleanupRows(m) ==
  LET T == 0..MaxCleanupAge
      fresh(c) == [channel |-> triggerPrefix, status |-> PENDING, retry_count |-> 0,
                   next_retry_at |-> NULL, processed_at |-> NULL, created_at |-> c]
      claimed == UNION {UNION {{[fresh(c) EXCEPT !.status = PROCESSING,
                                                 !.retry_count = r,
                                                 !.next_retry_at = t + CLAIM_DEADLINE] :
                                  t \in {x \in T : x >= c + r}} :
                               r \in {x \in 0..MaxRetriesBound : x = 0 \/ x < m}} :
                        c \in T}
      claimedAt(x) == x.next_retry_at - CLAIM_DEADLINE
      processed == UNION {{[x EXCEPT !.status = PROCESSED, !.processed_at = u] :
                             u \in {y \in T : y >= claimedAt(x)}} : x \in claimed}
      failed == UNION {{[x EXCEPT !.status = FAILED,
                                  !.retry_count = x.retry_count + 1,
                                  !.next_retry_at =
                                     IF x.retry_count >= m THEN NULL
                                     ELSE u + BACKOFF_BASE * Pow2(x.retry_count)] :
                          u \in {y \in T : y >= claimedAt(x)}} : x \in claimed}
  IN {fresh(c) : c \in T} \cup claimed \cup processed \cup failed

\* Queues of such rows, just after the oldest of them passed the TTL.
CleanupInit ==
  /\ maxRetries \in 0..MaxRetriesBound
  /\ lastId \in 1..MaxCleanupRows
  /\ queue \in [1..lastId -> CleanupRows(maxRetries)]
  /\ payload = [i \in 1..lastId |-> [table |-> "users", event |-> "INSERT"]]
  /\ now = MessageTTL + 1
  /\ drain = [d \in Drains |-> IdleDrain]
  /\ delivered = {}
  /\ orphaned = {}
  /\ crashes = 0
  /\ returned = << >>
  /\ handed = << >>
  /\ call = NoServiceCall
  /\ listener = StoppedListener
  /\ advisory = FreeLock
  /\ lockCall = [i \in Instances |-> NoCall]
  /\ activeLocks = [i \in Instances |-> NULL]
  /\ lockNow = 0
  /\ startup = [i \in Instances |-> NotStarted]
  /\ timers = [i \in Instances |-> NoTimers]
  /\ installed = {}
  /\ reconcile = NoSetup
  /\ change = NoChange

CleanupTick ==
  /\ now < MaxTime
  /\ now' = now + 1
  /\ UNCHANGED <<queue, payload, lastId, maxRetries, drain, delivered, orphaned,
                 crashes>>

CleanupNext ==
  \/ Cleanup /\ UNCHANGED elsewhere
  \/ CleanupTick /\ UNCHANGED elsewhere

CleanupSpec == CleanupInit /\ [][CleanupNext]_vars

\* ------------------------------------------------- one batch, any row order
\* Every change on a registered or unregistered table.
SortKinds == [table : tableNames \cup {GhostTable}, event : PgTableChangeType]

\* UPDATE ... RETURNING * promises no order: any arrangement of the claimed rows.
Arrangements(n) ==
  {s \in UNION {[1..k -> 1..n] : k \in 0..n} :
     \A i \in DOMAIN s : \A j \in DOMAIN s : i # j => s[i] # s[j]}

\* The rows of the queue when fetchPendingMessages has returned: the returned
\* ones claimed, the others as the trigger inserted them.
SortInit ==
  /\ now = 0
  /\ maxRetries = 0
  /\ drain = [d \in Drains |-> IdleDrain]
  /\ delivered = {}
  /\ orphaned = {}
  /\ crashes = 0
  /\ payload \in UNION {[1..n -> SortKinds] : n \in 1..MaxSort}
  /\ returned \in Arrangements(Len(payload))
  /\ lastId = Len(payload)
  /\ queue = [i \in 1..Len(payload) |->
                IF \E k \in DOMAIN returned : returned[k] = i
                THEN ClaimRow(NewRow, now) ELSE NewRow]
  /\ listener = StoppedListener
  /\ advisory = FreeLock
  /\ lockCall = [i \in Instances |-> NoCall]
  /\ activeLocks = [i \in Instances |-> NULL]
  /\ lockNow = 0
  /\ startup = [i \in Instances |-> NotStarted]
  /\ timers = [i \in Instances |-> NoTimers]
  /\ installed = {}
  /\ reconcile = NoSetup
  /\ change = NoChange
  /\ handed = << >>
  /\ call = NoServiceCall

\* The position of the decode loop in the returned messages.
DecodeFrom == IF call.op = "decode" THEN call.next ELSE 1

\* The positions from the decode loop's on whose message cannot be decoded.
Undecodable ==
  {k \in DecodeFrom..Len(returned) : ~Decodable(returned[k])}

\* pullAndProcessMessages, the decode loop: the messages are decoded in the
\* order they were returned in, up to the next one that cannot be decoded; its
\* catch block awaits markAsFailed([message.id]).
DecodeMark ==
  /\ call.op \in {"none", "decode"}
  /\ Undecodable # {}
  /\ queue' = markAsFailed(queue, {returned[Min(Undecodable)]})
  /\ call' = [op |-> "decode", next |-> Min(Undecodable) + 1]
  /\ UNCHANGED <<payload, lastId, now, maxRetries, drain, delivered, orphaned,
                 crashes, returned, handed, listener, lockVars, triggerVars>>

\* pullAndProcessMessages with no message fetched: if (messages.length === 0)
\* return, before the decode loop and processChanges.
EmptyBatch ==
  /\ call.op = "none"
  /\ returned = << >>
  /\ call' = [op |-> "returned"]
  /\ UNCHANGED <<queueVars, returned, handed, listener, lockVars, triggerVars>>

\* The decode loop of a batch with messages is over: processChanges(payloads),
\* up to the dispatch.
ProcessBatch ==
  /\ call.op \in {"none", "decode"}
  /\ returned # << >>
  /\ Undecodable = {}
  /\ handed' = processChanges(returned)
  /\ call' = [op |-> "processChanges"]
  /\ UNCHANGED <<queueVars, returned, listener, lockVars, triggerVars>>

SortNext ==
  \/ EmptyBatch
  \/ DecodeMark
  \/ ProcessBatch

SortSpec == SortInit /\ [][SortNext]_vars

\* Time passes; every notification and every fallback tick starts a drain, and
\* every query and every handler of a running process returns.  Nothing obliges
\* a process to die.
Fairness ==
  /\ SF_vars(AdvanceTime /\ UNCHANGED elsewhere)
  /\ \A d \in Drains :
    /\ WF_vars(FetchStart(d) /\ UNCHANGED elsewhere)
    /\ WF_vars(FetchQuery(d) /\ UNCHANGED elsewhere)
    /\ WF_vars(FetchCommit(d) /\ UNCHANGED elsewhere)
    /\ WF_vars(DecodeFail(d) /\ UNCHANGED elsewhere)
    /\ WF_vars(Dispatch(d) /\ UNCHANGED elsewhere)
    /\ WF_vars(Settle(d) /\ UNCHANGED elsewhere)
    /\ WF_vars(MarkFailed(d) /\ UNCHANGED elsewhere)

\* The fair runs of a single queue row, in which the clock runs to MaxTime.
OneRowNext ==
  \/ \E c \in ChangeKinds : lastId = 0 /\ Enqueue(c) /\ UNCHANGED elsewhere
  \/ AdvanceTime /\ UNCHANGED elsewhere
  \/ \E d \in Drains : FetchStart(d) /\ UNCHANGED elsewhere
  \/ \E d \in Drains : FetchQuery(d) /\ UNCHANGED elsewhere
  \/ \E d \in Drains : FetchCommit(d) /\ UNCHANGED elsewhere
  \/ \E d \in Drains : DecodeFail(d) /\ UNCHANGED elsewhere
  \/ \E d \in Drains : Dispatch(d) /\ UNCHANGED elsewhere
  \/ \E d \in Drains : Settle(d) /\ UNCHANGED elsewhere
  \/ \E d \in Drains : MarkFailed(d) /\ UNCHANGED elsewhere
  \/ \E d \in Drains : Crash(d) /\ UNCHANGED elsewhere
  \/ Cleanup /\ UNCHANGED elsewhere

FairSpec == Init /\ [][OneRowNext]_vars /\ Fairness

\* ----------------------------------------------------------------- claims
HasListener(i) == i \in DOMAIN payload /\ payload[i].table \in tableNames

\* The rows a drain holds: locked by its open claim, or claimed and not yet marked.
Held(d) == IF drain[d].pc = "fetch" THEN drain[d].batch ELSE Unmarked(d)

Owners(i) == {d \in Drains : i \in Unmarked(d)}

\* C1: at-least-once delivery.  Every row enqueued for a table that has a
\* registered handler is eventually passed to a handler of that table.
C1_AtLeastOnce ==
  \A i \in RowIds : HasListener(i) ~> (i \in delivered)

\* C2: disjoint claims.  No row is in the batches of two drains that have not yet
\* marked it, and a row in status processing belongs to exactly one unfinished
\* drain (a drain whose process died never finishes).
C2_DisjointClaims ==
  /\ \A d1 \in Drains : \A d2 \in Drains \ {d1} : Held(d1) \cap Held(d2) = {}
  /\ \A i \in DOMAIN queue :
       queue[i].status = PROCESSING =>
         Cardinality(Owners(i)) + (IF i \in orphaned THEN 1 ELSE 0) = 1

\* C2 witness: two claim transactions are open at once, each holding a row.
C2_Witness ==
  \E d1 \in Drains : \E d2 \in Drains \ {d1} :
    /\ drain[d1].pc = "fetch" /\ drain[d1].batch # {}
    /\ drain[d2].pc = "fetch" /\ drain[d2].batch # {}

StatusSteps ==
  { <<PENDING, PROCESSING>>, <<PROCESSING, PROCESSED>>,
    <<PROCESSING, FAILED>>, <<FAILED, PROCESSING>> }

\* C3: queue row lifecycle.  A status changes only along pending -> processing,
\* processing -> processed, processing -> failed and failed -> processing, the
\* last only when retry_count < max_retries and next_retry_at <= now.
C3_Lifecycle ==
  [][\A i \in DOMAIN queue \cap DOMAIN queue' :
       queue'[i].status # queue[i].status =>
         /\ <<queue[i].status, queue'[i].status>> \in StatusSteps
         /\ queue[i].status = FAILED =>
              /\ queue[i].retry_count < maxRetries
              /\ queue[i].next_retry_at # NULL
              /\ queue[i].next_retry_at <= now]_vars

\* C3 witness: a row that failed before has been claimed again.
C3_Witness ==
  \E i \in DOMAIN queue :
    queue[i].status = PROCESSING /\ queue[i].retry_count >= 1

\* C4: visibility deadline.  A row claimed by a process that died before marking it
\* can be claimed by another fetchPendingMessages once its next_retry_at, claim
\* time + 5 min, has passed.
C4_VisibilityDeadline ==
  \A i \in orphaned :
    (queue[i].status = PROCESSING /\ queue[i].next_retry_at <= now) =>
      \A d \in Drains : drain[d].pc = "idle" => i \in SelectForUpdate(d, now)

\* C5: every queue row satisfies retry_count <= max_retries, for every configured
\* max_retries >= 0.
C5_RetryCountCapped ==
  \A i \in DOMAIN queue : queue[i].retry_count <= maxRetries

\* C6: retry exhaustion.  When markAsFailed brings retry_count to max_retries the
\* row ends failed with next_retry_at = null.
C6_ExhaustedIsNull ==
  [][\A i \in DOMAIN queue \cap DOMAIN queue' :
       (queue'[i].retry_count = queue[i].retry_count + 1
          /\ queue'[i].retry_count = maxRetries) =>
         (queue'[i].status = FAILED /\ queue'[i].next_retry_at = NULL)]_vars

\* C7: failure and backoff.  After the first failure of a row that has retries
\* left, the row is failed with retry_count = 1 and next_retry_at = now + 2 min
\* (1 min * 2^retry_count for the incremented retry_count).
C7_BackoffTwoMinutes ==
  [][\A i \in DOMAIN queue \cap DOMAIN queue' :
       (queue[i].retry_count = 0 /\ queue'[i].retry_count = 1 /\ 1 < maxRetries) =>
         /\ queue'[i].status = FAILED
         /\ queue'[i].next_retry_at = now + BACKOFF_BASE * Pow2(queue'[i].retry_count)]_vars

\* C8: processed_at is non-null if and only if status = processed.
C8_ProcessedAt ==
  \A i \in DOMAIN queue :
    (queue[i].processed_at # NULL) <=> (queue[i].status = PROCESSED)

\* C8 witness: one row is processed and another was marked failed.
C8_Witness ==
  \E i \in DOMAIN queue : \E j \in DOMAIN queue :
    /\ queue[i].status = PROCESSED /\ queue[i].processed_at # NULL
    /\ queue[j].status = FAILED /\ queue[j].processed_at = NULL

Reported(rep) == UNION {rep[k] : k \in DOMAIN rep}

Outcomes(d) ==
  Reports(drain[d].calls) \X [1..Len(drain[d].calls) -> BOOLEAN]

\* C9: outcome accounting.  After the handlers settled, markAsProcessed receives
\* exactly the decoded ids that no handler reported and markAsFailed exactly the
\* union of the reported ids, so each decoded row ends processed or failed.
C9_OutcomeAccounting ==
  /\ [][\A d \in Drains : \A o \in Outcomes(d) :
          MarkProcessed(d, o[1], o[2]) =>
            LET decoded == {i \in drain[d].batch : payload[i].table \in tableNames}
                done == decoded \ Reported(o[1])
            IN /\ \A i \in done :
                    queue'[i].status = PROCESSED /\ queue[i].status = PROCESSING
               /\ \A i \in DOMAIN queue \ done : queue'[i] = queue[i]
               /\ IF Reported(o[1]) = {} THEN drain'[d].pc = "idle"
                  ELSE drain'[d].pc = "marked"
                       /\ drain'[d].failedIds = Reported(o[1])]_vars
  /\ [][\A d \in Drains :
          MarkFailed(d) =>
            /\ \A i \in drain[d].failedIds :
                 /\ queue[i].status = PROCESSING
                 /\ queue'[i].status = FAILED
                 /\ queue'[i].retry_count = queue[i].retry_count + 1
            /\ \A i \in DOMAIN queue \ drain[d].failedIds : queue'[i] = queue[i]
            /\ \A i \in {j \in drain[d].batch : payload[j].table \in tableNames} :
                 i \in DOMAIN queue' => queue'[i].status \in {PROCESSED, FAILED}]_vars

\* C9 witness: a drain marked one row of its batch processed and holds another,
\* reported through onError, for markAsFailed.
C9_Witness ==
  \E d \in Drains : \E i \in drain[d].batch : \E j \in drain[d].batch :
    /\ drain[d].pc = "marked"
    /\ j \in drain[d].failedIds /\ queue[j].status = PROCESSING
    /\ i \notin drain[d].failedIds /\ i \in DOMAIN queue
    /\ queue[i].status = PROCESSED

\* C10: a handler whose process() rejects without having called onError does not
\* fail the drain: every listener of the batch's tables was invoked, and every id
\* no handler reported is marked processed.
C10_RejectionIsLogged ==
  [][\A d \in Drains : \A o \in Outcomes(d) :
       (MarkProcessed(d, o[1], o[2])
          /\ \E k \in DOMAIN o[2] : o[2][k] /\ o[1][k] = {}) =>
         /\ drain'[d].pc \in {"idle", "marked"}
         /\ \A i \in drain[d].batch : \A n \in 1..Len(Providers) :
              Providers[n].table = payload[i].table =>
                \E k \in 1..Len(drain[d].calls) :
                  /\ drain[d].calls[k].listener = Providers[n].instance
                  /\ i \in Range(drain[d].calls[k].all)
         /\ \A i \in drain[d].batch :
              (payload[i].table \in tableNames /\ i \notin Reported(o[1])) =>
                queue'[i].status = PROCESSED]_vars

\* C10 witness: a listener rejected without reporting anything, another listener of
\* the same drain reported a row, and an unreported row of the batch is processed.
C10_Witness ==
  \E d \in Drains : \E k \in drain[d].rejected : \E i \in drain[d].batch :
    /\ drain[d].pc = "marked"
    /\ i \in Range(drain[d].calls[k].all)
    /\ i \notin drain[d].failedIds
    /\ i \in DOMAIN queue /\ queue[i].status = PROCESSED

\* C11: decode-failure isolation.  A claimed row whose decoding throws is the only
\* row that markAsFailed touches in the decode loop, and every other row of the
\* batch is still passed to every listener of its table.
C11_DecodeFailureIsolation ==
  [][\A d \in Drains :
       /\ (drain[d].pc = "decode" /\ drain'[d].pc = "decode"
             /\ drain'[d].dfailed # drain[d].dfailed) =>
            \E i \in drain[d].batch \ drain[d].dfailed :
              /\ ~Decodable(i)
              /\ drain'[d].dfailed = drain[d].dfailed \cup {i}
              /\ queue[i].status = PROCESSING /\ queue'[i].status = FAILED
              /\ \A j \in DOMAIN queue \ {i} : queue'[j] = queue[j]
       /\ (drain[d].pc = "decode" /\ drain'[d].pc = "running") =>
            /\ drain[d].dfailed = {i \in drain[d].batch : ~Decodable(i)}
            /\ \A i \in drain[d].batch \ drain[d].dfailed :
                 /\ queue'[i].status = PROCESSING
                 /\ i \in delivered'
                 /\ \A n \in 1..Len(Providers) :
                      Providers[n].table = payload[i].table =>
                        \E k \in 1..Len(drain'[d].calls) :
                          /\ drain'[d].calls[k].listener = Providers[n].instance
                          /\ i \in Range(drain'[d].calls[k].all)]_vars

\* C11 witness: a drain whose batch held a row that could not be decoded has
\* marked that row failed and invoked the listeners for another row.
C11_Witness ==
  \E d \in Drains : \E i \in drain[d].dfailed : \E j \in drain[d].batch :
    /\ drain[d].pc = "running"
    /\ i < j /\ j \notin drain[d].dfailed
    /\ drain[d].calls # << >>

Ascending(p) == \A i \in 1..(Len(p) - 1) : p[i] < p[i + 1]

SameTable(a, b) == payload[a].table = payload[b].table

\* C13 as stated: for two rows a < b of one table, b is never delivered for the
\* first time while a has not been delivered, across drains and instances.
C13_CreatedOrder ==
  [][\A b \in delivered' \ delivered : \A a \in 1..(b - 1) :
       SameTable(a, b) => a \in delivered']_vars

\* C13 amended: order holds within a batch and at the claim, not across
\* batches.  A claim statement that takes row b leaves out an earlier row a of
\* b's table only if a is then locked by another open claim transaction or is
\* not eligible (of another channel, processing, processed, failed and in
\* backoff or out of retries); a dispatch delivers the decoded rows of its own
\* batch and no other row, all of them together, and every handler invocation
\* receives the rows of its table in strictly ascending id order.
C13_LowestFirstInBatch ==
  [][\A d \in Drains :
       /\ (drain[d].pc = "begin" /\ drain'[d].pc = "fetch") =>
            \A b \in drain'[d].batch : \A a \in DOMAIN queue :
              (a < b /\ SameTable(a, b) /\ a \notin drain'[d].batch) =>
                \/ a \in LockedByOthers(d)
                \/ queue[a].channel # triggerPrefix
                \/ ~Claimable(queue[a], drain[d].txNow)
       /\ (drain[d].pc = "decode" /\ drain'[d].pc = "running") =>
            /\ delivered' \ delivered \subseteq drain[d].batch
            /\ {i \in drain[d].batch : Decodable(i)} \subseteq delivered'
            /\ \A k \in DOMAIN drain'[d].calls :
                 /\ Ascending(drain'[d].calls[k].all)
                 /\ Range(drain'[d].calls[k].all) =
                      {i \in drain[d].batch :
                         Decodable(i) /\ payload[i].table = drain'[d].calls[k].table}]_vars

\* C13 witness: the later row of a table has been delivered by the drain that
\* claimed it while the earlier row was locked by a claim that then failed and
\* was rolled back: the earlier row is pending, undelivered and held by no
\* drain, and no process has died.
C13_Witness ==
  \E d \in Drains : \E b \in drain[d].batch : \E a \in DOMAIN queue :
    /\ drain[d].pc = "running"
    /\ b \in delivered /\ a < b /\ SameTable(a, b) /\ a \notin delivered
    /\ queue[a].status = PENDING
    /\ \A o \in Drains : a \notin drain[o].batch
    /\ crashes = 0

\* A dispatch has delivered two rows of one table in one batch.
C13_BatchOfTwo ==
  \E d \in Drains : \E k \in DOMAIN drain[d].calls :
    drain[d].pc = "running" /\ Len(drain[d].calls[k].all) = 2


\* C12: every handler invocation receives its table's payloads, all and each of
\* INSERT, UPDATE and DELETE, in strictly ascending id order, whatever order the
\* claim query returned the rows in.
C12_AscendingIds ==
  \A k \in DOMAIN handed :
    /\ Ascending(handed[k].all)
    /\ Ascending(handed[k].INSERT)
    /\ Ascending(handed[k].UPDATE)
    /\ Ascending(handed[k].DELETE)
    /\ Range(handed[k].all) =
         {i \in Range(returned) : payload[i].table = handed[k].table}
    /\ \A e \in PgTableChangeType :
         Range(handed[k][e]) =
           {i \in Range(handed[k].all) : payload[i].event = e}

\* C12 witness: rows returned in descending order reached a handler as a list of
\* three, two of them inserts.
C12_Witness ==
  /\ Len(returned) = 3 /\ returned[1] > returned[2] /\ returned[2] > returned[3]
  /\ \E k \in DOMAIN handed :
       Len(handed[k].all) = 3 /\ Len(handed[k].INSERT) = 2

\* C14: pause/resume buffering.  While the listener is paused, no handler is
\* invoked for a row that was enqueued since pause() returned; such rows wait,
\* pending, for resume().
C14_PausedBuffers ==
  [][listener.paused =>
       \A i \in delivered' \ delivered : i <= listener.pausedAt]_vars

\* C15: no new drain starts while the listener is not listening.  Between the
\* return of pause() and the next call of resume() no fetchPendingMessages is
\* issued, whatever the interleaving of pause(), resume() and connection events.
C15_NoDrainWhilePaused ==
  [][\A d \in Drains :
       (drain[d].pc = "idle" /\ drain'[d].pc = "begin") => ~listener.paused]_vars

\* Listening: connected, subscribed to the channel, fallback polling running.
Listening(l) ==
  /\ l.postgresSubscriber = "connected"
  /\ l.subscribed
  /\ l.ticking

\* C16: suspendAndRun resumes on every exit path.  When it settles the listener
\* is listening again, and it rejects exactly when the action rejected.
C16_ResumesOnEveryExit ==
  [][(listener.sar = "resume" /\ listener'.sar \in {"resolved", "rejected"}) =>
       /\ Listening(listener')
       /\ (listener'.sar = "rejected") <=> listener.sarFailed]_vars

\* An instance is inside the onAccept of onModuleInit: queue setup and trigger
\* reconciliation.
Reconciling(i) == lockCall[i].init /\ lockCall[i].pc = "accept"

\* C17: single reconciler.  At most one instance at a time executes queue setup
\* and trigger reconciliation, and only while it holds the advisory lock.
C17_SingleReconciler ==
  /\ \A i \in Instances : \A j \in Instances \ {i} :
       ~(Reconciling(i) /\ Reconciling(j))
  /\ \A i \in Instances : Reconciling(i) => advisory.holder = i

\* C18: lock mutual exclusion.  A tryLock whose query found the lock held by
\* another instance never invokes onAccept and invokes onReject exactly once.
C18_LockExcludes ==
  \A i \in Instances :
    (lockCall[i].pc = "done" /\ lockCall[i].blocked) =>
      (lockCall[i].accepts = 0 /\ lockCall[i].rejects = 1)

\* C19: timed release.  An accepted lock is released once its duration has
\* elapsed since the acquisition: whoever holds the lock has a release pending
\* that is not overdue, so a later tryLock of another instance is accepted.
C19_TimedRelease ==
  \A i \in Instances :
    advisory.holder = i =>
      \/ timers[i].unlocking > 0
      \/ activeLocks[i] # NULL /\ lockNow <= activeLocks[i]

\* C20: an onAccept that throws after the lock was acquired is not caught by
\* tryLock: the error reaches the caller and onReject is not invoked.
C20_AcceptFailurePropagates ==
  \A i \in Instances :
    (lockCall[i].pc = "done" /\ lockCall[i].accepts = 1
       /\ lockCall[i].acceptThrows) =>
      (lockCall[i].threw /\ lockCall[i].rejects = 0)

\* C21: a failed setup fails the startup.  An instance whose queue setup or
\* trigger reconciliation threw during onModuleInit never goes on to listen:
\* onModuleInit throws instead.
C21_SetupFailureFailsStartup ==
  \A i \in Instances : startup[i].setupFailed => startup[i].phase = "failed"

\* C22: the rejection path of tryLock.  A call whose query found the lock held
\* by another instance, or whose query failed, schedules no release timer, and
\* when it returns it has never invoked onAccept, has invoked onReject exactly
\* once and has not thrown.
C22_RejectionPath ==
  [][\A i \in Instances :
       /\ (lockCall[i].pc = "query" /\ lockCall'[i].pc \in {"reject", "catch"})
            => activeLocks'[i] = activeLocks[i]
       /\ (lockCall[i].pc \in {"reject", "catch"} /\ lockCall'[i].pc = "done"
             /\ lockCall'[i].accepts = 0)
            => (lockCall'[i].rejects = 1 /\ ~lockCall'[i].threw)]_vars

\* C23: the postcondition of reconciliation and its idempotence.  When
\* setupTriggers has returned, the installed triggers are exactly the desired
\* ones, each on its table with its event mask, whatever was installed before;
\* and a run with the discovery of the run before it leaves the database as
\* that run left it.
C23_ReconcilePostcondition ==
  reconcile.pc = "done" =>
    /\ installed = {DesiredTrigger(l) : l \in reconcile.desired}
    /\ reconcile.repeat => installed = reconcile.start

\* C24: no event-loss window.  A row change made while setupTriggers runs, on a
\* table that had a trigger for the event when the run began and is desired by
\* the run with that event, is enqueued.
C24_NoLossWindow == change.kept => change.enqueued

\* The rows fetchPendingMessages may claim for drain d: of the channel, pending
\* or failed with retries left and due, and not locked by another claim.  The
\* time of the claim is NOW() of its transaction.
Eligible(d) ==
  {i \in DOMAIN queue :
     /\ queue[i].channel = triggerPrefix
     /\ \/ queue[i].status = PENDING
        \/ /\ queue[i].status = FAILED
           /\ queue[i].retry_count < maxRetries
           /\ queue[i].next_retry_at # NULL
           /\ queue[i].next_retry_at <= drain[d].txNow
     /\ \A o \in Drains \ {d} : drain[o].pc = "fetch" => i \notin drain[o].batch}

\* C25: the claim query.  A fetch selects at most 100 rows, exactly the
\* lowest-id eligible rows; its update sets them to processing with
\* next_retry_at five minutes after the fetch began and changes no other row.
C25_ClaimQuery ==
  [][\A d \in Drains :
       /\ (drain[d].pc = "begin" /\ drain'[d].pc = "fetch") =>
            /\ drain'[d].batch \subseteq Eligible(d)
            /\ Cardinality(drain'[d].batch) <= 100
            /\ \/ drain'[d].batch = Eligible(d)
               \/ Cardinality(drain'[d].batch) = 100
            /\ \A i \in drain'[d].batch : \A j \in Eligible(d) \ drain'[d].batch : i < j
       /\ (drain[d].pc = "fetch" /\ drain'[d].pc # "fetch") =>
            /\ DOMAIN queue' = DOMAIN queue
            /\ \A i \in DOMAIN queue :
                 queue'[i] = IF i \in drain[d].batch
                             THEN [queue[i] EXCEPT !.status = PROCESSING,
                                                   !.next_retry_at = drain[d].txNow + 5]
                             ELSE queue[i]]_vars

\* C25 witness: a claim of 100 rows is committed that skipped a row of another
\* channel and left an eligible row of its channel behind.
C25_Witness ==
  \E d \in Drains :
    /\ drain[d].pc = "decode"
    /\ Cardinality(drain[d].batch) = 100
    /\ \A i \in drain[d].batch : queue[i].status = PROCESSING
    /\ \E i \in DOMAIN queue : \E j \in drain[d].batch :
         i < j /\ queue[i].channel = OtherChannel /\ queue[i].status = PENDING
    /\ \E k \in DOMAIN queue :
         /\ queue[k].channel = triggerPrefix /\ queue[k].status = PENDING
         /\ \A j \in drain[d].batch : j < k

\* The rows a cleanup pass is to delete: processed for longer than the TTL, or
\* failed with no retry left and created longer ago than the TTL.
Deletable ==
  {i \in DOMAIN queue :
     \/ queue[i].status = PROCESSED /\ queue[i].processed_at < now - MessageTTL
     \/ /\ queue[i].status = FAILED
        /\ queue[i].retry_count >= maxRetries
        /\ queue[i].created_at < now - MessageTTL}

\* C26: a step that deletes rows deletes exactly the deletable ones, among them
\* no pending row, no processing row and no failed row that can be retried, and
\* leaves the remaining rows as they were.
C26_CleanupDeletes ==
  [][DOMAIN queue' # DOMAIN queue /\ lastId' = lastId =>
       /\ DOMAIN queue' = DOMAIN queue \ Deletable
       /\ \A i \in DOMAIN queue \ DOMAIN queue' :
            /\ queue[i].status \notin {PENDING, PROCESSING}
            /\ queue[i].status = FAILED => queue[i].retry_count >= maxRetries
       /\ \A i \in DOMAIN queue' : queue'[i] = queue[i]]_vars

\* C26 witness: at the first cleanup time a pass has deleted one of two rows and
\* left a row created before the cutoff: a failed row that can still be
\* retried, a pending row or a processing row.
C26_Witness ==
  /\ now = MessageTTL + 1
  /\ lastId = 2
  /\ \E i \in DOMAIN queue :
       /\ DOMAIN queue = {i}
       /\ queue[i].created_at < now - MessageTTL
       /\ queue[i].status = FAILED
       /\ queue[i].retry_count < maxRetries

\* A pass has deleted a row and left a pending or processing row created
\* before the cutoff.
C26_KeepsUnfinished ==
  /\ now = MessageTTL + 1
  /\ lastId = 2
  /\ \E i \in DOMAIN queue :
       /\ DOMAIN queue = {i}
       /\ queue[i].created_at < now - MessageTTL
       /\ queue[i].status \in {PENDING, PROCESSING}

\* C27: markAsProcessed is idempotent.  A call of markAsProcessed leaves every
\* row that is already processed as it is, processed_at included.
C27_MarkProcessedIdempotent ==
  [][call' # call /\ call'.op = "markAsProcessed" =>
       \A i \in call'.ids \cap DOMAIN queue :
         queue[i].status = PROCESSED => queue'[i] = queue[i]]_vars

\* The events a registration listens for, and the fields it asks for.
ListensFor(m) == IF m.events = Undefined THEN PgTableChangeType ELSE m.events[1]

AsksFor(m) == IF m.payloadFields = Undefined THEN Columns ELSE m.payloadFields[1]

Reverse(q) == [k \in 1..Len(q) |-> q[Len(q) + 1 - k]]

\* The trigger of each table as a discovery result configures it.
Configured(listeners) ==
  {[table |-> listeners[k].table, events |-> EventMask(listeners[k]),
    fields |-> PayloadColumns(listeners[k])] : k \in DOMAIN listeners}

\* C28: the registration merge.  The event mask of the trigger of a table holds
\* every event that a registration for the table listens for, and its payload
\* holds every field that a registration asks for; the registrations in reverse
\* order give the same masks and fields.
C28_RegistrationMerge ==
  call.op = "processDiscoveredListeners" =>
    /\ \A k \in DOMAIN call.providers :
         \E l \in Configured(call.listeners) :
           /\ l.table = call.providers[k].table
           /\ ListensFor(call.providers[k]) \subseteq l.events
           /\ AsksFor(call.providers[k]) \subseteq l.fields
    /\ Configured(processDiscoveredListeners(Reverse(call.providers)))
         = Configured(call.listeners)

\* The registration of a listener instance.
RegistrationOf(h) ==
  Providers[CHOOSE k \in DOMAIN Providers : Providers[k].instance = h]

\* The triggers configured for Providers capture the change of queue row i.
Captured(i) ==
  \E l \in Configured(processDiscoveredListeners(Providers)) :
    l.table = payload[i].table /\ payload[i].event \in l.events

\* C29: a handler registered with an event list is invoked only with changes
\* whose event is in its list, in a batch of changes that the triggers of the
\* registered listeners capture.
C29_OwnEventsOnly ==
  (\A i \in Range(returned) : Decodable(i) => Captured(i)) =>
    \A k \in DOMAIN handed :
      \A i \in Range(handed[k].all) :
        payload[i].event \in ListensFor(RegistrationOf(handed[k].listener))

\* The invocations of the listeners of table t, in invocation order, and the
\* listeners registered for t, in discovery order.
InvocationsFor(t) == SelectSeq(handed, LAMBDA r : r.table = t)

RegisteredFor(t) == SelectSeq(Providers, LAMBDA m : m.table = t)

\* The decoded rows of table t in the batch.
RowsOf(t) ==
  {i \in Range(returned) : payload[i].table = t /\ payload[i].table \in tableNames}

\* C30: routing.  When a batch has been processed, each table with a decoded row
\* in it had every listener registered for it invoked exactly once, in discovery
\* order, with all the decoded rows of the table, partitioned by event; no
\* listener was given a row of another table, and no listener of a table
\* without a row in the batch was invoked.
C30_Routing ==
  call.op \in {"processChanges", "returned"} =>
    /\ \A k \in DOMAIN handed : handed[k].table \in tableNames
    /\ \A t \in tableNames :
         IF RowsOf(t) = {} THEN InvocationsFor(t) = << >>
         ELSE /\ Len(InvocationsFor(t)) = Len(RegisteredFor(t))
              /\ \A k \in DOMAIN InvocationsFor(t) :
                   /\ InvocationsFor(t)[k].listener = RegisteredFor(t)[k].instance
                   /\ Range(InvocationsFor(t)[k].all) = RowsOf(t)
                   /\ Len(InvocationsFor(t)[k].all) = Cardinality(RowsOf(t))
                   /\ \A e \in PgTableChangeType :
                        /\ Range(InvocationsFor(t)[k][e]) =
                             {i \in RowsOf(t) : payload[i].event = e}
                        /\ Len(InvocationsFor(t)[k][e]) =
                             Cardinality({i \in RowsOf(t) : payload[i].event = e})

\* C30 witness: a processed batch of three rows with rows of both registered
\* tables and a row of an unknown table; three listeners were invoked.
C30_Witness ==
  /\ call.op = "processChanges"
  /\ Len(returned) = 3
  /\ RowsOf("users") # {} /\ RowsOf("orders") # {}
  /\ \E i \in Range(returned) : payload[i].table = GhostTable
  /\ Len(handed) = 3

\* C31: hashStringToInt returns, for every string, a value in [0, 2^31 - 2],
\* also for the empty string and for a string whose rolling hash is -2^31,
\* and a second call with the same string returns the same value.
C31_HashRange ==
  call.op = "hashStringToInt" =>
    /\ call.result \in 0..(PG_INT_MAX - 1)
    /\ call.again # NULL => call.again = call.result

\* Both calls were made with a string whose rolling hash is -2^31.
C31_Witness ==
  /\ call.op = "hashStringToInt"
  /\ RollingHash(call.str, 1, 0) = ToInt32(32768, 0)
  /\ call.again # NULL

\* The rows whose claim by drain d was committed.
ClaimedBy(d) ==
  IF drain[d].pc \in {"idle", "begin", "fetch"} \/ drain[d].error = "fetchPendingMessages"
  THEN {}
  ELSE drain[d].batch

\* C32: when pullAndProcessMessages returns, no row its drain claimed is still
\* in status processing, also when a mark operation failed with a database
\* error; no process crashes.
C32_NothingStranded ==
  [][\A d \in Drains :
       drain'[d].pc = "idle" =>
         \A i \in ClaimedBy(d) \cap DOMAIN queue' :
           queue'[i].status # PROCESSING]_vars

\* The handlers whose process() was invoked by drain d and has not settled.
RunningHandlers(d) ==
  IF drain[d].pc = "running"
  THEN {drain[d].calls[k].listener : k \in 1..Len(drain[d].calls)}
  ELSE {}

\* C33: within one process at most one drain is in progress at a time, and no
\* handler is invoked while an earlier invocation of it is still running.
C33_OneDrainAtATime ==
  /\ Cardinality({d \in Drains : drain[d].pc # "idle"}) <= 1
  /\ \A d1 \in Drains : \A d2 \in Drains \ {d1} :
       RunningHandlers(d1) \cap RunningHandlers(d2) = {}

\* Two invocations of one handler are running at once.
C33_HandlerOverlap ==
  \E d1 \in Drains : \E d2 \in Drains \ {d1} :
    RunningHandlers(d1) \cap RunningHandlers(d2) # {}

\* The fallback intervals of the process that still tick.
ActiveTimers(l) ==
  (IF l.ticking THEN 1 ELSE 0) + (IF l.leaked THEN 1 ELSE 0)

\* C34: a process has at most one active fallback timer and at most one
\* notification callback registered on the channel, whatever the sequence of
\* pause() and resume() calls, and once pause() has returned no timer that was
\* started still ticks.
C34_OneTimerOneCallback ==
  /\ ActiveTimers(listener) <= 1
  /\ listener.callbacks <= 1
  /\ listener.paused => ActiveTimers(listener) = 0

\* Two notification callbacks are registered on the connected subscriber.
C34_TwoCallbacks == listener.callbacks = 2 /\ listener.postgresSubscriber = "connected"

\* pause() has returned and a fallback interval still ticks.
C34_TimerSurvivesPause == listener.paused /\ ActiveTimers(listener) > 0

\* C35: whenever an instance holds the advisory lock it has a release pending
\* for the key (a timer that is scheduled, or one that fired and whose unlock
\* query is on its way), also after a tryLock on a key it already holds and
\* after an unlock query that failed.
C35_HeldHasRelease ==
  \A i \in Instances :
    advisory.holder = i => (timers[i].pending # {} \/ timers[i].unlocking > 0)

\* An unlock query failed and left the lock held with no release pending.
C35_UnlockFailed ==
  \E i \in Instances :
    /\ advisory = [holder |-> i, count |-> 1]
    /\ timers[i].pending = {} /\ timers[i].unlocking = 0
    /\ timers[i].entry # 0

\* C38: when the claim transaction of fetchPendingMessages fails it is rolled
\* back and no row changes; the query runner is released and the error is
\* rethrown to pullAndProcessMessages, which invokes no handler, marks no row
\* and resolves.
C38_FetchFailure ==
  [][\A d \in Drains :
       /\ (drain[d].pc \in {"begin", "fetch"}
             /\ drain'[d].error = "fetchPendingMessages") =>
            (queue' = queue /\ drain'[d].pc = "release")
       /\ (drain[d].error = "fetchPendingMessages" /\ drain'[d] # drain[d]) =>
            /\ queue' = queue
            /\ delivered' = delivered
            /\ drain'[d].calls = << >>
            /\ \/ /\ drain[d].pc = "release"
                  /\ drain'[d] = [drain[d] EXCEPT !.pc = "caught"]
               \/ /\ drain[d].pc = "caught"
                  /\ drain'[d] = IdleDrain]_vars

\* The error of a failed claim has reached the catch block of
\* pullAndProcessMessages, and the rows the claim had selected are unclaimed.
C38_Witness ==
  \E d \in Drains :
    /\ drain[d].pc = "caught"
    /\ drain[d].error = "fetchPendingMessages"
    /\ drain[d].batch # {}
    /\ \A i \in drain[d].batch :
         i \in DOMAIN queue /\ queue[i].status \in {PENDING, FAILED}

\* C39: per lock key an instance has at most one pending release timer; an
\* accepted tryLock cancels the release scheduled before and has scheduled
\* its own, due after the effective duration, when onAccept is invoked.
C39_OneReleaseTimer ==
  [][\A i \in Instances :
       /\ Cardinality(timers'[i].pending) <= 1
       /\ (lockCall[i].pc = "query" /\ lockCall'[i].pc = "accept") =>
            timers'[i].pending =
              {[id |-> timers'[i].entry,
                due |-> lockNow + EffectiveDuration(lockCall[i].duration)]}]_vars

\* The existing triggers of a run whose (schema, table) no desired listener has.
Obsolete ==
  {r \in reconcile.existing :
     \A l \in reconcile.desired : <<l.schema, l.table>> # <<r.schema, r.table>>}

\* createTriggers is called iff a listener is desired.
CreateCall == IF reconcile.desired # {} THEN <<"createTriggers">> ELSE << >>

\* dropTriggers is called iff a trigger is obsolete.
DropCall == IF Obsolete # {} THEN <<"dropTriggers">> ELSE << >>

\* C36: the differential setupTriggers calls createTriggers with all desired
\* triggers before it calls dropTriggers, passes to dropTriggers exactly the
\* existing triggers whose (schema, table) key no desired trigger has, calls no
\* dropTriggers when nothing is obsolete and no createTriggers when no listener
\* is desired.
C36_UpsertThenDrop ==
  reconcile.strategy = "differential" =>
    /\ reconcile.pc = "upsert" =>
         (reconcile.calls = CreateCall /\ reconcile.dropped = {})
    /\ reconcile.pc \in {"returning", "done"} =>
         /\ reconcile.calls = CreateCall \o DropCall
         /\ reconcile.dropped = Obsolete
         /\ reconcile.todo = {}

\* A run has upserted a trigger and then dropped the trigger of the same name
\* and table in another schema.
C36_Witness ==
  /\ reconcile.pc = "done"
  /\ reconcile.calls = <<"createTriggers", "dropTriggers">>
  /\ \E r \in reconcile.dropped : \E l \in reconcile.desired :
       /\ r.name = TriggerName(l.table) /\ r.table = l.table /\ r.schema # l.schema
       /\ DesiredTrigger(l) \in installed
       /\ r \notin listTriggers(installed)

\* C37: an atomic setupTriggers in which a statement (the BEGIN, listTriggers, a
\* DROP or CREATE) or the commit failed has never committed its transaction;
\* when it returns it has rolled the transaction back, released the query
\* runner and thrown, and the installed triggers are those installed before the
\* call.
C37_AtomicRollback ==
  (reconcile.strategy = "atomic" /\ reconcile.failed) =>
    /\ reconcile.tx # "committed"
    /\ installed = reconcile.start
    /\ reconcile.pc \in {"returning", "done"} => reconcile.tx = "rolledBack"
    /\ reconcile.pc = "done" =>
         (reconcile.runner = "released" /\ reconcile.threw /\ reconcile.locked = {})

\* startTransaction() rejected: setupTriggers has thrown, and its query runner
\* is connected and was not released.
C37_RunnerLeaked ==
  /\ reconcile.strategy = "atomic"
  /\ reconcile.pc = "done"
  /\ reconcile.threw
  /\ reconcile.runner = "open"
  /\ reconcile.tx = "none"

\* The same for the failures inside the try block: of listTriggers, of a DROP or
\* CREATE, of the commit.
C37_InsideTry ==
  (reconcile.strategy = "atomic" /\ reconcile.failed /\ reconcile.tx # "none") =>
    /\ reconcile.tx # "committed"
    /\ installed = reconcile.start
    /\ reconcile.pc \in {"returning", "done"} => reconcile.tx = "rolledBack"
    /\ reconcile.pc = "done" =>
         (reconcile.runner = "released" /\ reconcile.threw /\ reconcile.locked = {})

\* A run that had dropped and created triggers in its transaction failed at the
\* commit and has thrown, with triggers installed that it did not desire.
C37_CommitFailed ==
  /\ reconcile.strategy = "atomic"
  /\ reconcile.pc = "done"
  /\ reconcile.threw
  /\ reconcile.calls = <<"dropTriggers", "createTriggers">>
  /\ installed # {}
  /\ installed # {DesiredTrigger(l) : l \in reconcile.desired}

\* An object or array value.
IsObject(v) == v = JsObject

\* C40: updatedFields of an UPDATE payload is exactly the set of properties of
\* the remapped entities whose old and new values differ and are not objects or
\* arrays; a property that goes from null to a scalar, or that only new has,
\* is in it.
C40_UpdatedFields ==
  call.op = "UPDATE" =>
    call.updatedFields =
      {p \in PropNames :
         /\ call.old[p] # call.new[p]
         /\ ~IsObject(call.old[p])
         /\ ~IsObject(call.new[p])}

\* The diff of an update that changes one scalar of the entity to another.
C40_ScalarChange ==
  /\ call.op = "UPDATE"
  /\ call.old["name"] = "a" /\ call.new["name"] = "b"
  /\ call.old["id"] = call.new["id"]
  /\ call.updatedFields = {"name"}

\* A property went from null to a scalar and is missing from updatedFields.
C40_NullToScalar ==
  /\ call.op = "UPDATE"
  /\ call.old["name"] = JsNull /\ call.new["name"] = "a"
  /\ "name" \notin call.updatedFields

====
